---- MODULE Spec2Model ----
(***************************************************************************)
(* Model of the backend of agentic-duo: StateManager (state_manager.py),  *)
(* ToolExecutor (tool_executor.py) and AudioProcessor                      *)
(* (audio_processor.py).                                                   *)
(*                                                                         *)
(* Conventions.  An Optional[int] is a sequence of length at most one:     *)
(* <<>> is None and <<i>> is the integer i.  datetime.now() timestamps are *)
(* not modelled (no operation reads them back).  Every coroutine is cut    *)
(* into steps, one per statement that reads or writes shared state, and    *)
(* steps of different tasks interleave freely; this over-approximates the  *)
(* schedules of the event loop, which only switches tasks at an await.     *)
(***************************************************************************)
EXTENDS Integers, Sequences, FiniteSets, TLC

\* ---------------------------------------------------------------- bounds
NumTasks == 2
MaxCalls == 2
MaxNavCalls == 3
MaxAppendCalls == 3
MaxCtxCalls == 2
MaxDeck == 5
NumCtrl == 2
MaxAudioCalls == 2
MaxCapacity == 2
MaxFrames == 4
MaxBatch == 2
MaxResponses == 2
MaxToolCalls == 2
MaxEntries == 21

\* audio_processor.py:34: queue_maxsize: int = 5
DefaultQueueMaxsize == 5
MaxTotal == 2
MaxLog == 6
\* calls made in a session of SpecView, and records already in its logs
MaxViewCalls == 3
MaxPrior == 3

\* state_manager.py:135: n: int = 10
DefaultRecent == 10

Tasks == 1..NumTasks
\* arguments below, inside and above the range of a deck of MaxTotal slides
TotalArgs == {-1, 0, 1, MaxTotal}
IndexArgs == {-1, 0, MaxTotal - 1, MaxTotal}
Directions == {"next", "prev", "jump", "sideways"}
MetaKeys == {"session_id", "presenter"}
\* arguments of get_recent_transcript: negative, zero, shorter than a log,
\* and the default
RecentArgs == {-1, 0, 1, 2, DefaultRecent}

VARIABLES
    total_slides,      \* StateManager.total_slides
    current_slide,     \* StateManager.current_slide
    transcript,        \* StateManager.transcript
    injections,        \* StateManager.injections
    session_metadata,  \* StateManager.session_metadata
    lock,              \* StateManager._lock: <<>> when free, <<t>> when held by t
    pc,                \* position of each task inside the operation it runs
    op,                \* the call each task is executing (name and arguments)
    local,             \* local variables of the running call (new_index, entry, ...)
    ret,               \* outcome of the last call of each task
    entry_state,       \* the StateManager fields as they were when the task got the lock
    budget,            \* number of calls the tasks may still issue
    issued,            \* per task, number of appends issued to each log
    start_slide,       \* current_slide at the moment the tasks were started
    tools,             \* ToolExecutor.tools: name -> handler
    declarations,      \* ToolExecutor.declarations: name -> declaration
    reg_out,           \* name and outcome of the last register_tool call
    exec_pc,           \* position of the caller inside execute_tool
    exec_call,         \* function_name, function_id and args of the running execute_tool
    exec_out,          \* what execute_tool gave its caller: a response or an exception
    exec_entry,        \* the registry and the StateManager fields when execute_tool was called
    invoked,           \* the handler invocations the running execute_tool has made
    hd_pc,             \* position of the handle_tool_calls task
    hd_resp,           \* the response handle_tool_calls is processing
    hd_next,           \* index of the next function call of that response
    hd_batch,          \* function_responses
    hd_sent,           \* the lists handed to send_tool_response for that response
    hd_done,           \* how the processing of that response went
    hd_out,            \* how handle_tool_calls ended
    hd_budget,         \* number of responses and failures the session may still produce
    hd_caught,         \* the inner handler has caught an exception
    queue_maxsize,     \* AudioProcessor.audio_queue.maxsize
    audio_queue,       \* AudioProcessor.audio_queue
    audio_stream,      \* AudioProcessor.audio_stream: <<>> or <<stream id>>
    capture_task,      \* AudioProcessor._capture_task: <<>> or <<loop id>>
    is_running,        \* AudioProcessor._is_running
    streams,           \* state of every stream pya.open has returned
    terminated,        \* pya.terminate() has been called
    loop_pc,           \* position of every _capture_loop task
    loop_held,         \* audio_msg of a loop between its read and its put
    loop_cancel,       \* cancel() has been requested on the loop task
    ctl_pc,            \* position of each caller of start_capture / stop_capture
    ctl_out,           \* outcome of the last start_capture / stop_capture of each caller
    ctl_wait,          \* the loop task a stop_capture is awaiting
    audio_budget,      \* number of start_capture / stop_capture calls still to come
    frames_read,       \* number of frames the stream reads have returned
    consumed,          \* the frames the consumer has taken from the queue
    tl_pc,             \* position of the task that runs the SlideTools commands
    tl_call,           \* the command that task is running, or ran last
    tl_local,          \* local variables of that command
    tl_out,            \* what the command gave its caller
    tl_budget,         \* number of commands still to come
    held,              \* a value a caller has kept from an earlier read operation
    loop_read          \* per loop, the stream a thread started by its read is blocked on

sm_vars == <<total_slides, current_slide, transcript, injections, session_metadata>>
exec_vars == <<tools, declarations, reg_out, exec_pc, exec_call, exec_out, exec_entry, invoked>>
disp_vars == <<hd_pc, hd_resp, hd_next, hd_batch, hd_sent, hd_done, hd_out, hd_budget,
               hd_caught>>
audio_vars == <<queue_maxsize, audio_queue, audio_stream, capture_task, is_running,
                streams, terminated, loop_pc, loop_held, loop_cancel, ctl_pc, ctl_out, ctl_wait,
                audio_budget, frames_read, consumed, loop_read>>
tool_vars == <<tl_pc, tl_call, tl_local, tl_out, tl_budget>>
other_vars == <<exec_vars, disp_vars, audio_vars, tool_vars, held>>
state_vars == <<total_slides, current_slide, transcript, injections, session_metadata,
                lock, pc, op, local, ret, entry_state, budget, issued, start_slide, held>>
vars == <<total_slides, current_slide, transcript, injections, session_metadata,
          lock, pc, op, local, ret, entry_state, budget, issued, start_slide,
          tools, declarations, reg_out, exec_pc, exec_call, exec_out, exec_entry, invoked,
          hd_pc, hd_resp, hd_next, hd_batch, hd_sent, hd_done, hd_out, hd_budget, hd_caught,
          queue_maxsize, audio_queue, audio_stream, capture_task, is_running,
          streams, terminated, loop_pc, loop_held, loop_cancel, ctl_pc, ctl_out, ctl_wait,
          audio_budget, frames_read, consumed,
          tl_pc, tl_call, tl_local, tl_out, tl_budget, held, loop_read>>

\* ------------------------------------------------------------ pure helpers
Min(a, b) == IF a <= b THEN a ELSE b
Max(a, b) == IF a >= b THEN a ELSE b

\* state_manager.py:52-55 and 284-287: the fresh session marker
FreshMetadata == [k \in {"started_at", "session_id"} |->
                    IF k = "started_at" THEN "now" ELSE "None"]

\* The five fields of the StateManager, as one value
SMState == [current_slide |-> current_slide, total_slides |-> total_slides,
            transcript |-> transcript, injections |-> injections,
            session_metadata |-> session_metadata]

\* state_manager.py:69 and 105: the range test shared by set_current_slide and navigate
OutOfRange_NoLower(total, index) == total > 0 /\ index >= total
OutOfRange(total, index) == total > 0 /\ (index < 0 \/ index >= total)

\* state_manager.py:94: new_index of navigate("next")
NextIndex(cur, total) == Min(cur + 1, IF total > 0 THEN total - 1 ELSE 0)

\* state_manager.py:96: new_index of navigate("prev")
PrevIndex_NoFloor(cur) == cur - 1
PrevIndex(cur) == Max(cur - 1, 0)

\* Python's seq[-n:] for n >= 1: the last n elements, all of them when shorter
LastN(s, n) == IF Len(s) <= n THEN s ELSE SubSeq(s, Len(s) - n + 1, Len(s))

\* state_manager.py:239: self.transcript[-5:] if self.transcript else []
RecentFive_Four(tr) == IF tr = <<>> THEN <<>> ELSE LastN(tr, 4)
RecentFive(tr) == IF tr = <<>> THEN <<>> ELSE LastN(tr, 5)

\* Python's seq[start:]: a negative start counts from the end, and the start
\* is clamped into 0..len(seq)
SliceFrom(s, start) ==
    LET first == IF start < 0 THEN Max(Len(s) + start, 0) ELSE Min(start, Len(s))
    IN SubSeq(s, first + 1, Len(s))

\* state_manager.py:146: self.transcript[-n:] if self.transcript else []
RecentTranscript_All(tr, n) == tr
RecentTranscript(tr, n) == IF tr = <<>> THEN <<>> ELSE SliceFrom(tr, 0 - n)

\* state_manager.py:162 and 204: the list comprehension that keeps, in
\* order, the records of a log whose slide index is the given one
ForSlide_All(log, index) == log
ForSlide(log, index) == SelectSeq(log, LAMBDA rec : rec.slide_index = index)

\* the fields of the value a read operation returns that are the
\* StateManager's own containers and not copies: get_context returns
\* self.session_metadata itself (state_manager.py:240), the lists are
\* slices, comprehensions or copies (146, 162, 204, 209, 239)
Shares(name) == IF name = "get_context" THEN {"session_metadata"} ELSE {}

\* list.append
AppendRecord_Overwrite(log, rec) ==
    IF log = <<>> THEN <<rec>> ELSE [log EXCEPT ![Len(log)] = rec]
AppendRecord(log, rec) == Append(log, rec)

\* ---------------------------------------------------------------- calls
NoOp == [name |-> "none", direction |-> "", index |-> <<>>, arg |-> 0, key |-> ""]
NoRet == [status |-> "none", value |-> <<>>]
NoLocal == <<>>
NoEntry == <<>>

\* nothing kept from a read operation
NoView == [op |-> "none", value |-> <<>>, shares |-> {}]

\* a task issues a call: it goes to wait for the lock (async with self._lock)
Issue(t, call) ==
    /\ pc[t] = "idle"
    /\ budget > 0
    /\ budget' = budget - 1
    /\ op' = [op EXCEPT ![t] = call]
    /\ pc' = [pc EXCEPT ![t] = "acquire"]
    /\ ret' = [ret EXCEPT ![t] = NoRet]
    /\ UNCHANGED <<sm_vars, lock, local, entry_state, start_slide, other_vars>>

Call(name) == [NoOp EXCEPT !.name = name]

First(name) ==
    IF name = "set_current_slide" THEN "scs_check"
    ELSE IF name = "navigate" THEN "nav_compute"
    ELSE IF name = "add_transcript_entry" THEN "ate_build"
    ELSE IF name = "track_injection" THEN "ti_build"
    ELSE IF name = "set_total_slides" THEN "sts_write"
    ELSE IF name = "get_context" THEN "gc_slides"
    ELSE IF name = "set_metadata" THEN "sm_write"
    ELSE IF name = "clear_transcript" THEN "ct_clear"
    ELSE IF name = "clear_injections" THEN "ci_clear"
    ELSE IF name = "get_recent_transcript" THEN "grt_slice"
    ELSE IF name = "get_transcript_for_slide" THEN "gts_filter"
    ELSE IF name = "get_injections_for_slide" THEN "gis_filter"
    ELSE IF name = "get_all_injections" THEN "gai_copy"
    ELSE "reset_slide"

\* asyncio.Lock: acquire succeeds only while nobody holds the lock
LockAvailable_Always == TRUE
LockAvailable == lock = <<>>

\* async with self._lock: entry
Acquire(t) ==
    /\ pc[t] = "acquire"
    /\ LockAvailable
    /\ lock' = <<t>>
    /\ entry_state' = [entry_state EXCEPT ![t] = <<SMState>>]
    /\ pc' = [pc EXCEPT ![t] = First(op[t].name)]
    /\ UNCHANGED <<sm_vars, op, local, ret, budget, issued, start_slide, other_vars>>

\* a task is cancelled while it waits for the lock: CancelledError leaves
\* the call without ever entering the critical section
CancelWaiting(t) ==
    /\ pc[t] = "acquire"
    /\ pc' = [pc EXCEPT ![t] = "idle"]
    /\ op' = [op EXCEPT ![t] = NoOp]
    /\ ret' = [ret EXCEPT ![t] = [status |-> "CancelledError", value |-> <<>>]]
    /\ UNCHANGED <<sm_vars, lock, local, entry_state, budget, issued, start_slide, other_vars>>

\* async with self._lock: exit, on return and on raise alike
Release(t) ==
    /\ pc[t] = "release"
    /\ lock' = <<>>
    /\ pc' = [pc EXCEPT ![t] = "idle"]
    /\ op' = [op EXCEPT ![t] = NoOp]
    /\ ret' = [ret EXCEPT ![t] = NoRet]
    /\ local' = [local EXCEPT ![t] = NoLocal]
    /\ entry_state' = [entry_state EXCEPT ![t] = NoEntry]
    /\ UNCHANGED <<sm_vars, budget, issued, start_slide, other_vars>>

\* raise ValueError inside the with block
Raise(t) ==
    /\ pc' = [pc EXCEPT ![t] = "release"]
    /\ ret' = [ret EXCEPT ![t] = [status |-> "ValueError", value |-> <<>>]]

\* return value inside the with block
Return(t, v) ==
    /\ pc' = [pc EXCEPT ![t] = "release"]
    /\ ret' = [ret EXCEPT ![t] = [status |-> "ok", value |-> v]]

\* ------------------------------------------------ StateManager operations
\* set_current_slide(index)
CallSetCurrentSlide(t) ==
    \E i \in IndexArgs :
        /\ Issue(t, [Call("set_current_slide") EXCEPT !.arg = i])
        /\ UNCHANGED issued

SetCurrentSlideCheck(t) ==
    /\ pc[t] = "scs_check"
    /\ IF OutOfRange(total_slides, op[t].arg)
       THEN Raise(t)
       ELSE pc' = [pc EXCEPT ![t] = "scs_write"] /\ UNCHANGED ret
    /\ UNCHANGED <<sm_vars, lock, op, local, entry_state, budget, issued, start_slide, other_vars>>

SetCurrentSlideWrite(t) ==
    /\ pc[t] = "scs_write"
    /\ current_slide' = op[t].arg
    /\ Return(t, <<>>)
    /\ UNCHANGED <<total_slides, transcript, injections, session_metadata,
                   lock, op, local, entry_state, budget, issued, start_slide, other_vars>>

\* navigate(direction, index=None)
CallNavigate(t) ==
    \E d \in Directions, i \in {<<>>} \cup {<<j>> : j \in IndexArgs} :
        /\ d # "jump" => i = <<>>
        /\ Issue(t, [Call("navigate") EXCEPT !.direction = d, !.index = i])
        /\ UNCHANGED issued

\* navigate("next")
CallNavigateNext(t) ==
    /\ Issue(t, [Call("navigate") EXCEPT !.direction = "next"])
    /\ UNCHANGED issued

\* navigate("next") or navigate("prev")
CallNavigateStep(t) ==
    \E d \in {"next", "prev"} :
        /\ Issue(t, [Call("navigate") EXCEPT !.direction = d])
        /\ UNCHANGED issued

NavigateCompute(t) ==
    /\ pc[t] = "nav_compute"
    /\ IF op[t].direction = "next"
       THEN /\ local' = [local EXCEPT ![t] = <<NextIndex(current_slide, total_slides)>>]
            /\ pc' = [pc EXCEPT ![t] = "nav_validate"]
            /\ UNCHANGED ret
       ELSE IF op[t].direction = "prev"
       THEN /\ local' = [local EXCEPT ![t] = <<PrevIndex(current_slide)>>]
            /\ pc' = [pc EXCEPT ![t] = "nav_validate"]
            /\ UNCHANGED ret
       ELSE IF op[t].direction = "jump" /\ op[t].index # <<>>
       THEN /\ local' = [local EXCEPT ![t] = <<op[t].index[1]>>]
            /\ pc' = [pc EXCEPT ![t] = "nav_validate"]
            /\ UNCHANGED ret
       ELSE Raise(t) /\ UNCHANGED local
    /\ UNCHANGED <<sm_vars, lock, op, entry_state, budget, issued, start_slide, other_vars>>

NavigateValidate(t) ==
    /\ pc[t] = "nav_validate"
    /\ IF OutOfRange(total_slides, local[t][1])
       THEN Raise(t)
       ELSE pc' = [pc EXCEPT ![t] = "nav_write"] /\ UNCHANGED ret
    /\ UNCHANGED <<sm_vars, lock, op, local, entry_state, budget, issued, start_slide, other_vars>>

NavigateWrite(t) ==
    /\ pc[t] = "nav_write"
    /\ current_slide' = local[t][1]
    /\ Return(t, <<local[t][1]>>)
    /\ UNCHANGED <<total_slides, transcript, injections, session_metadata,
                   lock, op, local, entry_state, budget, issued, start_slide, other_vars>>

\* add_transcript_entry(text, speaker="user"); the text of the k-th entry a
\* task adds is the pair <<task, k>>
CallAddTranscriptEntry(t) ==
    /\ Issue(t, [Call("add_transcript_entry") EXCEPT !.arg = issued[t].transcript + 1])
    /\ issued' = [issued EXCEPT ![t].transcript = @ + 1]

AddTranscriptEntryBuild(t) ==
    /\ pc[t] = "ate_build"
    /\ local' = [local EXCEPT ![t] = <<[text |-> <<t, op[t].arg>>, speaker |-> "user",
                                        slide_index |-> current_slide]>>]
    /\ pc' = [pc EXCEPT ![t] = "ate_append"]
    /\ UNCHANGED <<sm_vars, lock, op, ret, entry_state, budget, issued, start_slide, other_vars>>

AddTranscriptEntryAppend(t) ==
    /\ pc[t] = "ate_append"
    /\ transcript' = AppendRecord(transcript, local[t][1])
    /\ Return(t, <<>>)
    /\ UNCHANGED <<total_slides, current_slide, injections, session_metadata,
                   lock, op, local, entry_state, budget, issued, start_slide, other_vars>>

\* get_recent_transcript(n=10)
CallGetRecentTranscript(t) ==
    \E n \in RecentArgs :
        /\ Issue(t, [Call("get_recent_transcript") EXCEPT !.arg = n])
        /\ UNCHANGED issued

GetRecentTranscript(t) ==
    /\ pc[t] = "grt_slice"
    /\ Return(t, <<RecentTranscript(transcript, op[t].arg)>>)
    /\ UNCHANGED <<sm_vars, lock, op, local, entry_state, budget, issued, start_slide, other_vars>>

\* state_manager.py:183: slide_index if slide_index is not None else
\* self.current_slide
InjectionSlide_Current(index, cur) == cur
InjectionSlide(index, cur) == IF index # <<>> THEN index[1] ELSE cur

\* track_injection(placeholder, content_type, content, slide_index=None); the
\* content of the k-th injection a task tracks is the pair <<task, k>>
CallTrackInjection(t) ==
    \E i \in {<<>>, <<0>>, <<MaxTotal>>} :
        /\ Issue(t, [Call("track_injection") EXCEPT !.index = i, !.key = "text",
                                                     !.arg = issued[t].injections + 1])
        /\ issued' = [issued EXCEPT ![t].injections = @ + 1]

TrackInjectionBuild(t) ==
    /\ pc[t] = "ti_build"
    /\ local' = [local EXCEPT ![t] =
                   <<[slide_index |-> InjectionSlide(op[t].index, current_slide),
                      placeholder |-> "AI:CONTENT", content_type |-> op[t].key,
                      content |-> <<t, op[t].arg>>]>>]
    /\ pc' = [pc EXCEPT ![t] = "ti_append"]
    /\ UNCHANGED <<sm_vars, lock, op, ret, entry_state, budget, issued, start_slide, other_vars>>

TrackInjectionAppend(t) ==
    /\ pc[t] = "ti_append"
    /\ injections' = AppendRecord(injections, local[t][1])
    /\ Return(t, <<>>)
    /\ UNCHANGED <<total_slides, current_slide, transcript, session_metadata,
                   lock, op, local, entry_state, budget, issued, start_slide, other_vars>>

\* set_total_slides(total)
CallSetTotalSlides(t) ==
    \E n \in TotalArgs :
        /\ Issue(t, [Call("set_total_slides") EXCEPT !.arg = n])
        /\ UNCHANGED issued

SetTotalSlidesWrite(t) ==
    /\ pc[t] = "sts_write"
    /\ total_slides' = op[t].arg
    /\ Return(t, <<>>)
    /\ UNCHANGED <<current_slide, transcript, injections, session_metadata,
                   lock, op, local, entry_state, budget, issued, start_slide, other_vars>>

\* get_context(): the dict display is evaluated item by item
CallGetContext(t) ==
    /\ Issue(t, Call("get_context"))
    /\ UNCHANGED issued

GetContextSlides(t) ==
    /\ pc[t] = "gc_slides"
    /\ local' = [local EXCEPT ![t] = <<[current_slide |-> current_slide,
                                        total_slides |-> total_slides]>>]
    /\ pc' = [pc EXCEPT ![t] = "gc_counts"]
    /\ UNCHANGED <<sm_vars, lock, op, ret, entry_state, budget, issued, start_slide, other_vars>>

GetContextCounts(t) ==
    /\ pc[t] = "gc_counts"
    /\ local' = [local EXCEPT ![t] = <<[current_slide |-> local[t][1].current_slide,
                                        total_slides |-> local[t][1].total_slides,
                                        transcript_entries |-> Len(transcript),
                                        injections_count |-> Len(injections)]>>]
    /\ pc' = [pc EXCEPT ![t] = "gc_recent"]
    /\ UNCHANGED <<sm_vars, lock, op, ret, entry_state, budget, issued, start_slide, other_vars>>

GetContextRecent(t) ==
    /\ pc[t] = "gc_recent"
    /\ Return(t, <<[current_slide |-> local[t][1].current_slide,
                    total_slides |-> local[t][1].total_slides,
                    transcript_entries |-> local[t][1].transcript_entries,
                    injections_count |-> local[t][1].injections_count,
                    recent_transcript |-> RecentFive(transcript),
                    session_metadata |-> session_metadata]>>)
    /\ UNCHANGED <<sm_vars, lock, op, local, entry_state, budget, issued, start_slide, other_vars>>

\* get_transcript_for_slide(slide_index)
CallGetTranscriptForSlide(t) ==
    \E i \in 0..MaxTotal - 1 :
        /\ Issue(t, [Call("get_transcript_for_slide") EXCEPT !.arg = i])
        /\ UNCHANGED issued

GetTranscriptForSlide(t) ==
    /\ pc[t] = "gts_filter"
    /\ Return(t, <<ForSlide(transcript, op[t].arg)>>)
    /\ UNCHANGED <<sm_vars, lock, op, local, entry_state, budget, issued, start_slide, other_vars>>

\* get_injections_for_slide(slide_index)
CallGetInjectionsForSlide(t) ==
    \E i \in 0..MaxTotal - 1 :
        /\ Issue(t, [Call("get_injections_for_slide") EXCEPT !.arg = i])
        /\ UNCHANGED issued

GetInjectionsForSlide(t) ==
    /\ pc[t] = "gis_filter"
    /\ Return(t, <<ForSlide(injections, op[t].arg)>>)
    /\ UNCHANGED <<sm_vars, lock, op, local, entry_state, budget, issued, start_slide, other_vars>>

\* get_all_injections()
CallGetAllInjections(t) ==
    /\ Issue(t, Call("get_all_injections"))
    /\ UNCHANGED issued

GetAllInjections(t) ==
    /\ pc[t] = "gai_copy"
    /\ Return(t, <<injections>>)
    /\ UNCHANGED <<sm_vars, lock, op, local, entry_state, budget, issued, start_slide, other_vars>>

\* the caller of a read operation keeps the value the operation returns
ReadOps == {"get_context", "get_recent_transcript", "get_transcript_for_slide",
            "get_injections_for_slide", "get_all_injections"}

Keep(t) ==
    /\ pc[t] = "release"
    /\ ret[t].status = "ok"
    /\ op[t].name \in ReadOps
    /\ held = NoView
    /\ held' = [op |-> op[t].name, value |-> ret[t].value[1], shares |-> Shares(op[t].name)]
    /\ UNCHANGED <<sm_vars, lock, pc, op, local, ret, entry_state, budget, issued, start_slide,
                   exec_vars, disp_vars, audio_vars, tool_vars>>

\* set_metadata(key, value)
CallSetMetadata(t) ==
    \E k \in MetaKeys :
        /\ Issue(t, [Call("set_metadata") EXCEPT !.key = k])
        /\ UNCHANGED issued

SetMetadataWrite(t) ==
    /\ pc[t] = "sm_write"
    /\ session_metadata' = (op[t].key :> "value") @@ session_metadata
    /\ Return(t, <<>>)
    /\ UNCHANGED <<total_slides, current_slide, transcript, injections,
                   lock, op, local, entry_state, budget, issued, start_slide, other_vars>>

\* clear_transcript()
CallClearTranscript(t) ==
    /\ Issue(t, Call("clear_transcript"))
    /\ UNCHANGED issued

ClearTranscript(t) ==
    /\ pc[t] = "ct_clear"
    /\ transcript' = <<>>
    /\ Return(t, <<>>)
    /\ UNCHANGED <<total_slides, current_slide, injections, session_metadata,
                   lock, op, local, entry_state, budget, issued, start_slide, other_vars>>

\* clear_injections()
CallClearInjections(t) ==
    /\ Issue(t, Call("clear_injections"))
    /\ UNCHANGED issued

ClearInjections(t) ==
    /\ pc[t] = "ci_clear"
    /\ injections' = <<>>
    /\ Return(t, <<>>)
    /\ UNCHANGED <<total_slides, current_slide, transcript, session_metadata,
                   lock, op, local, entry_state, budget, issued, start_slide, other_vars>>

\* what a caller sees in the value it has kept: a field that is the
\* StateManager's own container shows the container as it is now
Observed(view) ==
    IF "session_metadata" \in view.shares
    THEN [view.value EXCEPT !.session_metadata = session_metadata]
    ELSE view.value

\* the kept value once the StateManager no longer uses the containers it
\* shares with it
Detached(view) == [view EXCEPT !.value = Observed(view), !.shares = {}]

\* state_manager.py:284-287: the dict reset binds to session_metadata
ResetMetadataValue_Kept(old) == old
ResetMetadataValue(old) == FreshMetadata

\* reset(): four assignments under one lock
CallReset(t) ==
    /\ Issue(t, Call("reset"))
    /\ UNCHANGED issued

ResetSlide(t) ==
    /\ pc[t] = "reset_slide"
    /\ current_slide' = 0
    /\ pc' = [pc EXCEPT ![t] = "reset_transcript"]
    /\ UNCHANGED <<total_slides, transcript, injections, session_metadata,
                   lock, op, local, ret, entry_state, budget, issued, start_slide, other_vars>>

ResetTranscript(t) ==
    /\ pc[t] = "reset_transcript"
    /\ transcript' = <<>>
    /\ pc' = [pc EXCEPT ![t] = "reset_injections"]
    /\ UNCHANGED <<total_slides, current_slide, injections, session_metadata,
                   lock, op, local, ret, entry_state, budget, issued, start_slide, other_vars>>

ResetInjections(t) ==
    /\ pc[t] = "reset_injections"
    /\ injections' = <<>>
    /\ pc' = [pc EXCEPT ![t] = "reset_metadata"]
    /\ UNCHANGED <<total_slides, current_slide, transcript, session_metadata,
                   lock, op, local, ret, entry_state, budget, issued, start_slide, other_vars>>

\* state_manager.py:284-287: reset binds session_metadata to a new dict; a
\* caller that holds the old dict keeps it as it was at this moment
ResetMetadata(t) ==
    /\ pc[t] = "reset_metadata"
    /\ session_metadata' = ResetMetadataValue(session_metadata)
    /\ held' = Detached(held)
    /\ Return(t, <<>>)
    /\ UNCHANGED <<total_slides, current_slide, transcript, injections,
                   lock, op, local, entry_state, budget, issued, start_slide,
                   exec_vars, disp_vars, audio_vars, tool_vars>>

\* ------------------------------------------------------------ ToolExecutor
\* Handlers are values: fn is the name of the function, is_async tells
\* whether it is a coroutine function, params and required are the keyword
\* parameters it accepts and the ones without a default, raises is the
\* exception its body raises ("" when it returns) and message the text of
\* that exception.

\* tests/test_tool_executor.py:30-32: async def sample_func(message="test")
SampleFunc == [fn |-> "sample_func", is_async |-> TRUE, params |-> {"message"},
               required |-> {}, raises |-> "", message |-> ""]

\* tests/test_tool_executor.py:120-121: async def error_tool(): raise ValueError(...)
ErrorTool == [fn |-> "error_tool", is_async |-> TRUE, params |-> {},
              required |-> {}, raises |-> "ValueError", message |-> "Intentional error"]

\* slide_tools.py:36-40: async def navigate_slide(direction, index=None)
NavigateSlide == [fn |-> "navigate_slide", is_async |-> TRUE,
                  params |-> {"direction", "index"}, required |-> {"direction"},
                  raises |-> "", message |-> ""]

\* tests/test_tool_executor.py:79-80: def sync_func()
SyncFunc == [fn |-> "sync_func", is_async |-> FALSE, params |-> {},
             required |-> {}, raises |-> "", message |-> ""]

Handlers == {SampleFunc, ErrorTool, NavigateSlide, SyncFunc}
ToolNames == {"sample_func", "error_tool", "unknown_tool"}
CallIds == {"id1", "id2"}
Declarations == {"decl_a", "decl_b"}
\* the empty mapping {}
Empty == [k \in {} |-> ""]
\* the argument mappings given to execute_tool
ArgMaps == {Empty, [message |-> "hello"], [direction |-> "next"], [direction |-> "sideways"]}

\* the classes caught by "except Exception"; CancelledError is a
\* BaseException and is not among them
ExceptionClasses == {"ValueError", "TypeError"}
Catches_ValueErrorOnly(class) == class = "ValueError"
Catches(class) == class \in ExceptionClasses

\* func(**args): the call binds when every key is a parameter and every
\* required parameter is given; otherwise Python raises TypeError
Binds(h, keys) == keys \subseteq h.params /\ h.required \subseteq keys

NoCall == [name |-> "", id |-> "", args |-> Empty]
NoOut == [kind |-> "none"]

\* FunctionResponse(id=..., name=..., response=...)
FunctionResponse(id, name, response) ==
    [kind |-> "response", id |-> id, name |-> name, response |-> response]

\* tool_executor.py:102-106: the response for a name that is not registered
UnknownResponse_PlainError(id, name) ==
    FunctionResponse(id, name, [result |-> "error", error |-> <<"Unknown function", name>>])
UnknownResponse(id, name) ==
    FunctionResponse(id, name, [result |-> "error: unknown function",
                                error |-> <<"Unknown function", name>>])

\* tool_executor.py:120-124: the response for a handler that returned
SuccessResponse_Ack(id, name, data) ==
    FunctionResponse(id, name, [result |-> "success", data |-> [text |-> "done"]])
SuccessResponse(id, name, data) ==
    FunctionResponse(id, name, [result |-> "success", data |-> data])

\* tool_executor.py:133-137: the response for an exception e, with str(e)
ErrorResponse_Generic(id, name, message) ==
    FunctionResponse(id, name, [result |-> "error", error |-> "error"])
ErrorResponse(id, name, message) ==
    FunctionResponse(id, name, [result |-> "error", error |-> message])

\* an exception that leaves execute_tool
Propagated(class) == [kind |-> "raised", class |-> class]

\* state_manager.py:92-109: the index navigate commits and returns, <<>>
\* when it raises ValueError
NavigateResult(cur, total, direction, index) ==
    LET new_index == IF direction = "next" THEN <<NextIndex(cur, total)>>
                     ELSE IF direction = "prev" THEN <<PrevIndex(cur)>>
                     ELSE IF direction = "jump" THEN index
                     ELSE <<>>
    IN IF new_index = <<>> THEN <<>>
       ELSE IF OutOfRange(total, new_index[1]) THEN <<>>
       ELSE new_index

\* the index argument of navigate_slide: None unless given
IndexOf(args) == IF "index" \in DOMAIN args THEN <<args.index>> ELSE <<>>

\* the value a handler returns, called with args on a StateManager standing
\* on slide cur of total: the envelope of navigate_slide (slide_tools.py:
\* 51-67), the text of sample_func (tests/test_tool_executor.py:32)
HandlerResult(h, args, cur, total) ==
    IF h.fn = "navigate_slide"
    THEN LET r == NavigateResult(cur, total, args.direction, IndexOf(args))
         IN IF r = <<>>
            THEN [action |-> "navigate", success |-> FALSE, error |-> "ValueError"]
            ELSE [action |-> "navigate", direction |-> args.direction,
                  current_slide |-> r[1], total_slides |-> total, success |-> TRUE]
    ELSE [text |-> "Executed with",
          message |-> IF "message" \in DOMAIN args THEN args.message ELSE "test"]

\* the slide the StateManager stands on once the handler has run: only
\* navigate_slide reaches the StateManager (slide_tools.py:52)
HandlerEffect(h, args, cur, total) ==
    IF h.fn = "navigate_slide"
    THEN LET r == NavigateResult(cur, total, args.direction, IndexOf(args))
         IN IF r = <<>> THEN cur ELSE r[1]
    ELSE cur

\* function_responses.append(func_response)
Collect_Latest(batch, response) == <<response>>
Collect(batch, response) == Append(batch, response)

\* the function calls a response of the session may carry: name, id and
\* args; wellformed is FALSE when args is not a mapping, so that dict(fc.args)
\* (tool_executor.py:172) raises
FunctionCalls ==
    {[name |-> c[1], id |-> id, args |-> c[2], wellformed |-> c[3]] :
        id \in CallIds,
        c \in {<<"sample_func", [message |-> "hello"], TRUE>>, <<"error_tool", Empty, TRUE>>,
               <<"unknown_tool", Empty, TRUE>>, <<"sample_func", Empty, FALSE>>}}

RECURSIVE SeqsUpTo(_, _)
\* the sequences over S of length at most n
SeqsUpTo(S, n) ==
    IF n = 0 THEN {<<>>}
    ELSE LET shorter == SeqsUpTo(S, n - 1)
         IN shorter \cup {Append(s, x) : s \in {q \in shorter : Len(q) = n - 1}, x \in S}

\* the responses a turn yields: without a tool call, or with a tool call
\* carrying up to MaxBatch function calls
Responses ==
    {[tool_call |-> FALSE, function_calls |-> <<>>]}
      \cup {[tool_call |-> TRUE, function_calls |-> calls] :
              calls \in SeqsUpTo(FunctionCalls, MaxBatch)}

NoResponse == [tool_call |-> FALSE, function_calls |-> <<>>]

\* ToolExecutor.__init__; no handle_tool_calls task exists yet
InitExecutor ==
    /\ tools = <<>>
    /\ declarations = <<>>
    /\ reg_out = <<>>
    /\ exec_pc = "idle"
    /\ exec_call = NoCall
    /\ exec_out = NoOut
    /\ exec_entry = <<>>
    /\ invoked = <<>>
    /\ hd_pc = "none"
    /\ hd_resp = NoResponse
    /\ hd_next = 0
    /\ hd_batch = <<>>
    /\ hd_sent = <<>>
    /\ hd_done = "none"
    /\ hd_out = "none"
    /\ hd_budget = 0
    /\ hd_caught = FALSE

\* tool_executor.py:56: name in self.tools
AlreadyRegistered_Never(name) == FALSE
AlreadyRegistered(name) == name \in DOMAIN tools

\* register_tool(name, func, declaration)
RegisterTool ==
    \E name \in ToolNames, func \in Handlers, declaration \in Declarations :
        /\ exec_pc = "idle"
        /\ hd_pc = "none"
        /\ IF AlreadyRegistered(name)
           THEN /\ reg_out' = <<[status |-> "ValueError: already registered", name |-> name]>>
                /\ UNCHANGED <<tools, declarations>>
           ELSE IF ~func.is_async
           THEN /\ reg_out' = <<[status |-> "ValueError: must be an async function",
                                 name |-> name]>>
                /\ UNCHANGED <<tools, declarations>>
           ELSE /\ tools' = (name :> func) @@ tools
                /\ declarations' = (name :> declaration) @@ declarations
                /\ reg_out' = <<[status |-> "ok", name |-> name]>>
        /\ UNCHANGED <<exec_pc, exec_call, exec_out, exec_entry, invoked, disp_vars,
                       state_vars, audio_vars, tool_vars>>

\* the registry and the StateManager as execute_tool finds them
EntrySnapshot == <<[tools |-> tools, declarations |-> declarations, state |-> SMState]>>

\* execute_tool(function_name, function_id, args=None): args is <<>> for
\* None and <<mapping>> for a mapping; None becomes the empty mapping
ExecuteTool ==
    \E name \in ToolNames, id \in CallIds, args \in {<<>>} \cup {<<a>> : a \in ArgMaps} :
        /\ exec_pc = "idle"
        /\ hd_pc = "none"
        /\ exec_call' = [name |-> name, id |-> id,
                         args |-> IF args = <<>> THEN Empty ELSE args[1]]
        /\ exec_pc' = "lookup"
        /\ exec_out' = NoOut
        /\ exec_entry' = EntrySnapshot
        /\ invoked' = <<>>
        /\ UNCHANGED <<tools, declarations, reg_out, disp_vars, state_vars, audio_vars, tool_vars>>

\* tool_executor.py:97-106: unknown function
ExecuteLookup ==
    /\ exec_pc = "lookup"
    /\ IF exec_call.name \notin DOMAIN tools
       THEN /\ exec_out' = UnknownResponse(exec_call.id, exec_call.name)
            /\ exec_pc' = "returned"
       ELSE /\ exec_pc' = "invoke"
            /\ UNCHANGED exec_out
    /\ UNCHANGED <<tools, declarations, reg_out, exec_call, exec_entry, invoked, disp_vars,
                   state_vars, audio_vars, tool_vars>>

\* what execute_tool does with an exception raised inside its try block
\* (tool_executor.py:126-137)
OnException(class, message) ==
    IF Catches(class)
    THEN ErrorResponse(exec_call.id, exec_call.name, message)
    ELSE Propagated(class)

\* tool_executor.py:114: the call self.tools[function_name](**args); when
\* the arguments bind, the handler is entered
ExecuteInvoke ==
    /\ exec_pc = "invoke"
    /\ IF Binds(tools[exec_call.name], DOMAIN exec_call.args)
       THEN /\ exec_pc' = "awaiting"
            /\ invoked' = Append(invoked, [fn |-> tools[exec_call.name].fn,
                                           args |-> exec_call.args])
            /\ UNCHANGED exec_out
       ELSE /\ exec_out' = OnException("TypeError", "unexpected keyword argument")
            /\ exec_pc' = "returned"
            /\ UNCHANGED invoked
    /\ UNCHANGED <<tools, declarations, reg_out, exec_call, exec_entry, disp_vars,
                   state_vars, audio_vars, tool_vars>>

\* the awaited handler finishes: it returns a value (tool_executor.py:120-124)
\* or raises (126-137); navigate_slide goes through the StateManager lock
HandlerFinishes ==
    /\ exec_pc = "awaiting"
    /\ LET h == tools[exec_call.name] IN
          /\ h.fn = "navigate_slide" => LockAvailable
          /\ IF h.raises = ""
             THEN exec_out' = SuccessResponse(exec_call.id, exec_call.name,
                                 HandlerResult(h, exec_call.args, current_slide, total_slides))
             ELSE exec_out' = OnException(h.raises, h.message)
          /\ current_slide' = HandlerEffect(h, exec_call.args, current_slide, total_slides)
    /\ exec_pc' = "returned"
    /\ UNCHANGED <<tools, declarations, reg_out, exec_call, exec_entry, invoked, disp_vars,
                   total_slides, transcript, injections, session_metadata,
                   lock, pc, op, local, ret, entry_state, budget, issued, start_slide,
                   audio_vars, tool_vars, held>>

\* the task running execute_tool is cancelled while it awaits the handler:
\* CancelledError is not an Exception and leaves execute_tool
ExecuteCancelled ==
    /\ exec_pc = "awaiting"
    /\ exec_out' = [kind |-> "cancelled"]
    /\ exec_pc' = "returned"
    /\ UNCHANGED <<tools, declarations, reg_out, exec_call, exec_entry, invoked, disp_vars,
                   state_vars, audio_vars, tool_vars>>

\* the caller has taken the outcome
ExecuteDone ==
    /\ exec_pc = "returned"
    /\ hd_pc = "none"
    /\ exec_pc' = "idle"
    /\ exec_call' = NoCall
    /\ exec_out' = NoOut
    /\ exec_entry' = <<>>
    /\ invoked' = <<>>
    /\ UNCHANGED <<tools, declarations, reg_out, disp_vars, state_vars, audio_vars, tool_vars>>

\* ------------------------------------------------------- handle_tool_calls
\* an exception reaches the inner "except Exception" (tool_executor.py:
\* 191-197): log, sleep, continue; anything that handler does not catch ends
\* the loop through the outer handlers (199-203)
DispatchRaise(class) ==
    IF Catches(class)
    THEN /\ hd_pc' = "sleep"
         /\ hd_done' = IF hd_done = "processing" THEN "failed" ELSE hd_done
         /\ hd_caught' = TRUE
         /\ UNCHANGED hd_out
    ELSE /\ hd_pc' = "ended"
         /\ hd_out' = "fatal"
         /\ UNCHANGED <<hd_done, hd_caught>>

\* tool_executor.py:155: turn = session.receive()
DispatchReceive ==
    /\ hd_pc = "receive"
    /\ \E ok \in BOOLEAN :
          IF ok
          THEN /\ hd_pc' = "iterate"
               /\ UNCHANGED <<hd_done, hd_out, hd_budget, hd_caught>>
          ELSE /\ hd_budget > 0
               /\ hd_budget' = hd_budget - 1
               /\ \E class \in ExceptionClasses : DispatchRaise(class)
    /\ UNCHANGED <<hd_resp, hd_next, hd_batch, hd_sent, exec_vars, state_vars, audio_vars, tool_vars>>

\* tool_executor.py:156: async for response in turn: the next response
\* arrives, the turn is over, or the iteration raises
DispatchIterate ==
    /\ hd_pc = "iterate"
    /\ \/ /\ hd_budget > 0
          /\ hd_budget' = hd_budget - 1
          /\ \E response \in Responses : hd_resp' = response
          /\ hd_pc' = "response"
          /\ hd_done' = "processing"
          /\ hd_sent' = <<>>
          /\ UNCHANGED <<hd_out, hd_caught>>
       \/ /\ hd_pc' = "receive"
          /\ UNCHANGED <<hd_resp, hd_done, hd_sent, hd_out, hd_budget, hd_caught>>
       \/ /\ hd_budget > 0
          /\ hd_budget' = hd_budget - 1
          /\ \E class \in ExceptionClasses : DispatchRaise(class)
          /\ UNCHANGED <<hd_resp, hd_sent>>
    /\ UNCHANGED <<hd_next, hd_batch, exec_vars, state_vars, audio_vars, tool_vars>>

\* tool_executor.py:158-165: a response with a tool call starts an empty
\* list of function responses; any other response is skipped
DispatchResponse ==
    /\ hd_pc = "response"
    /\ IF hd_resp.tool_call
       THEN /\ hd_batch' = <<>>
            /\ hd_next' = 1
            /\ hd_pc' = "calls"
            /\ UNCHANGED hd_done
       ELSE /\ hd_pc' = "iterate"
            /\ hd_done' = "completed"
            /\ UNCHANGED <<hd_batch, hd_next>>
    /\ UNCHANGED <<hd_resp, hd_sent, hd_out, hd_budget, hd_caught,
                   exec_vars, state_vars, audio_vars, tool_vars>>

\* tool_executor.py:165-182: the next function call is read and execute_tool
\* is called with its name, id and arguments
DispatchExecute ==
    /\ hd_pc = "calls"
    /\ hd_next <= Len(hd_resp.function_calls)
    /\ LET fc == hd_resp.function_calls[hd_next] IN
          IF fc.wellformed
          THEN /\ exec_call' = [name |-> fc.name, id |-> fc.id, args |-> fc.args]
               /\ exec_pc' = "lookup"
               /\ exec_out' = NoOut
               /\ exec_entry' = EntrySnapshot
               /\ invoked' = <<>>
               /\ hd_pc' = "executing"
               /\ UNCHANGED <<hd_done, hd_out, hd_caught>>
          ELSE /\ DispatchRaise("TypeError")
               /\ UNCHANGED <<exec_pc, exec_call, exec_out, exec_entry, invoked>>
    /\ UNCHANGED <<tools, declarations, reg_out, hd_resp, hd_next, hd_batch, hd_sent,
                   hd_budget, state_vars, audio_vars, tool_vars>>

\* tool_executor.py:178-183: execute_tool is over; its response joins the
\* list, a CancelledError ends the loop, any other exception is handled as
\* an exception of the iteration
DispatchCollect ==
    /\ hd_pc = "executing"
    /\ exec_pc = "returned"
    /\ IF exec_out.kind = "response"
       THEN /\ hd_batch' = Collect(hd_batch, exec_out)
            /\ hd_next' = hd_next + 1
            /\ hd_pc' = "calls"
            /\ UNCHANGED <<hd_done, hd_out, hd_caught>>
       ELSE IF exec_out.kind = "cancelled"
       THEN /\ hd_pc' = "ended"
            /\ hd_out' = "CancelledError"
            /\ UNCHANGED <<hd_batch, hd_next, hd_done, hd_caught>>
       ELSE /\ DispatchRaise(exec_out.class)
            /\ UNCHANGED <<hd_batch, hd_next>>
    /\ exec_pc' = "idle"
    /\ exec_call' = NoCall
    /\ exec_out' = NoOut
    /\ exec_entry' = <<>>
    /\ invoked' = <<>>
    /\ UNCHANGED <<tools, declarations, reg_out, hd_resp, hd_sent, hd_budget,
                   state_vars, audio_vars, tool_vars>>

\* tool_executor.py:186-187: every function call is done; a non-empty list
\* is handed to session.send_tool_response
DispatchSend ==
    /\ hd_pc = "calls"
    /\ hd_next > Len(hd_resp.function_calls)
    /\ IF hd_batch # <<>>
       THEN /\ hd_sent' = Append(hd_sent, hd_batch)
            /\ hd_pc' = "sending"
            /\ UNCHANGED hd_done
       ELSE /\ hd_pc' = "iterate"
            /\ hd_done' = "completed"
            /\ UNCHANGED hd_sent
    /\ UNCHANGED <<hd_resp, hd_next, hd_batch, hd_out, hd_budget, hd_caught,
                   exec_vars, state_vars, audio_vars, tool_vars>>

\* tool_executor.py:187-189: send_tool_response returns or raises
DispatchSendDone ==
    /\ hd_pc = "sending"
    /\ \E ok \in BOOLEAN :
          IF ok
          THEN /\ hd_pc' = "iterate"
               /\ hd_done' = "completed"
               /\ UNCHANGED <<hd_out, hd_budget, hd_caught>>
          ELSE /\ hd_budget > 0
               /\ hd_budget' = hd_budget - 1
               /\ \E class \in ExceptionClasses : DispatchRaise(class)
    /\ UNCHANGED <<hd_resp, hd_next, hd_batch, hd_sent, exec_vars, state_vars, audio_vars, tool_vars>>

\* tool_executor.py:196-197: the sleep is over, the loop continues
DispatchSleepDone ==
    /\ hd_pc = "sleep"
    /\ hd_pc' = "receive"
    /\ UNCHANGED <<hd_resp, hd_next, hd_batch, hd_sent, hd_done, hd_out, hd_budget,
                   hd_caught, exec_vars, state_vars, audio_vars, tool_vars>>

\* tool_executor.py:199-200: the task is cancelled while it is suspended in
\* the iteration, in send_tool_response or in the sleep
DispatchCancelled ==
    /\ hd_pc \in {"iterate", "sending", "sleep"}
    /\ hd_pc' = "ended"
    /\ hd_out' = "CancelledError"
    /\ UNCHANGED <<hd_resp, hd_next, hd_batch, hd_sent, hd_done, hd_budget, hd_caught,
                   exec_vars, state_vars, audio_vars, tool_vars>>

\* ---------------------------------------------------------- AudioProcessor
Ctrls == 1..NumCtrl
\* every start_capture creates at most one stream and one loop task
Loops == 1..MaxAudioCalls

\* audio_processor.py:105-108: the message built from a chunk
AudioMsg_NoTag(data) == [data |-> data, mime_type |-> ""]
AudioMsg(data) == [data |-> data, mime_type |-> "audio/pcm"]

\* asyncio.Queue.full(): a maxsize <= 0 means an unbounded queue
Full_Never(q, maxsize) == FALSE
Full(q, maxsize) == maxsize > 0 /\ Len(q) >= maxsize

\* AudioProcessor.__init__(queue_maxsize)
InitAudio(maxsize) ==
    /\ queue_maxsize = maxsize
    /\ audio_queue = <<>>
    /\ audio_stream = <<>>
    /\ capture_task = <<>>
    /\ is_running = FALSE
    /\ streams = [k \in Loops |-> "none"]
    /\ terminated = FALSE
    /\ loop_pc = [k \in Loops |-> "none"]
    /\ loop_held = [k \in Loops |-> <<>>]
    /\ loop_cancel = [k \in Loops |-> FALSE]
    /\ ctl_pc = [c \in Ctrls |-> "idle"]
    /\ ctl_out = [c \in Ctrls |-> "none"]
    /\ ctl_wait = [c \in Ctrls |-> <<>>]
    /\ audio_budget = MaxAudioCalls
    /\ frames_read = 0
    /\ consumed = <<>>
    /\ loop_read = [k \in Loops |-> <<>>]

\* audio_processor.py:57: if self._is_running
AlreadyRunning_Never == FALSE
AlreadyRunning == is_running

\* start_capture, lines 57-63: the running check and the device lookup,
\* up to the await of pya.open
StartBegin(c) ==
    /\ ctl_pc[c] = "idle"
    /\ audio_budget > 0
    /\ audio_budget' = audio_budget - 1
    /\ IF AlreadyRunning
       THEN /\ ctl_out' = [ctl_out EXCEPT ![c] = "already running"]
            /\ UNCHANGED ctl_pc
       ELSE \E device_ok \in BOOLEAN :
               IF device_ok
               THEN /\ ctl_pc' = [ctl_pc EXCEPT ![c] = "opening"]
                    /\ ctl_out' = [ctl_out EXCEPT ![c] = "none"]
               ELSE /\ ctl_out' = [ctl_out EXCEPT ![c] = "error"]
                    /\ UNCHANGED ctl_pc
    /\ UNCHANGED <<queue_maxsize, audio_queue, audio_stream, capture_task, is_running,
                   streams, terminated, loop_pc, loop_held, loop_cancel,
                   frames_read, consumed, ctl_wait, loop_read,
                   state_vars, exec_vars, disp_vars, tool_vars>>

\* the stream or loop id the next successful pya.open gets
NextId == Cardinality({k \in Loops : streams[k] # "none"}) + 1

\* start_capture, lines 66-79: pya.open returned a stream
StartOpened(c) ==
    /\ ctl_pc[c] = "opening"
    /\ audio_stream' = <<NextId>>
    /\ streams' = [streams EXCEPT ![NextId] = "open"]
    /\ is_running' = TRUE
    /\ capture_task' = <<NextId>>
    /\ loop_pc' = [loop_pc EXCEPT ![NextId] = "created"]
    /\ ctl_pc' = [ctl_pc EXCEPT ![c] = "idle"]
    /\ ctl_out' = [ctl_out EXCEPT ![c] = "started"]
    /\ UNCHANGED <<queue_maxsize, audio_queue, terminated, loop_held, loop_cancel,
                   audio_budget, frames_read, consumed, ctl_wait, loop_read,
                   state_vars, exec_vars, disp_vars, tool_vars>>

\* audio_processor.py:76: self._is_running = True stands after the await of
\* pya.open, so an exception of the open leaves the flag as it is
RunningAfterFailure_Set == TRUE
RunningAfterFailure == is_running

\* start_capture, lines 81-83: pya.open raised
StartOpenFails(c) ==
    /\ ctl_pc[c] = "opening"
    /\ ctl_pc' = [ctl_pc EXCEPT ![c] = "idle"]
    /\ ctl_out' = [ctl_out EXCEPT ![c] = "error"]
    /\ is_running' = RunningAfterFailure
    /\ UNCHANGED <<queue_maxsize, audio_queue, audio_stream, capture_task,
                   streams, terminated, loop_pc, loop_held, loop_cancel,
                   audio_budget, frames_read, consumed, ctl_wait, loop_read,
                   state_vars, exec_vars, disp_vars, tool_vars>>

\* the event loop runs the new task for the first time; a task cancelled
\* before its first step never enters the coroutine
LoopStart(l) ==
    /\ loop_pc[l] = "created"
    /\ loop_pc' = [loop_pc EXCEPT ![l] = IF loop_cancel[l] THEN "ended" ELSE "check"]
    /\ UNCHANGED <<queue_maxsize, audio_queue, audio_stream, capture_task, is_running,
                   streams, terminated, loop_held, loop_cancel, ctl_pc, ctl_out, ctl_wait,
                   audio_budget, frames_read, consumed, ctl_wait, loop_read,
                   state_vars, exec_vars, disp_vars, tool_vars>>

\* _capture_loop, line 95: while self._is_running, then the read is started
\* in a worker thread (asyncio.to_thread, 98-102) on the current stream
LoopCheck(l) ==
    /\ loop_pc[l] = "check"
    /\ loop_pc' = [loop_pc EXCEPT ![l] = IF is_running THEN "reading" ELSE "ended"]
    /\ loop_read' = [loop_read EXCEPT ![l] = IF is_running THEN audio_stream ELSE <<>>]
    /\ UNCHANGED <<queue_maxsize, audio_queue, audio_stream, capture_task, is_running,
                   streams, terminated, loop_held, loop_cancel, ctl_pc, ctl_out, ctl_wait,
                   audio_budget, frames_read, consumed, ctl_wait,
                   state_vars, exec_vars, disp_vars, tool_vars>>

\* lines 98-108: the read returns a chunk, which is packaged
LoopReadDone(l) ==
    /\ loop_pc[l] = "reading"
    /\ ~loop_cancel[l]
    /\ frames_read < MaxFrames
    /\ frames_read' = frames_read + 1
    /\ loop_held' = [loop_held EXCEPT ![l] = <<AudioMsg(frames_read + 1)>>]
    /\ loop_pc' = [loop_pc EXCEPT ![l] = "put"]
    /\ loop_read' = [loop_read EXCEPT ![l] = <<>>]
    /\ UNCHANGED <<queue_maxsize, audio_queue, audio_stream, capture_task, is_running,
                   streams, terminated, loop_cancel, ctl_pc, ctl_out, ctl_wait,
                   audio_budget, consumed, ctl_wait,
                   state_vars, exec_vars, disp_vars, tool_vars>>

\* audio_processor.py:113-117: where the loop goes after an exception of
\* the read: to the sleep while running, and in both cases on to the next
\* test of the while condition
AfterReadError_Ends(running) == "ended"
AfterReadError(running) == IF running THEN "sleep" ELSE "check"

\* lines 113-117: the read raised; back off while running, then continue
LoopReadError(l) ==
    /\ loop_pc[l] = "reading"
    /\ ~loop_cancel[l]
    /\ loop_pc' = [loop_pc EXCEPT ![l] = AfterReadError(is_running)]
    /\ loop_read' = [loop_read EXCEPT ![l] = <<>>]
    /\ UNCHANGED <<queue_maxsize, audio_queue, audio_stream, capture_task, is_running,
                   streams, terminated, loop_held, loop_cancel, ctl_pc, ctl_out, ctl_wait,
                   audio_budget, frames_read, consumed, ctl_wait,
                   state_vars, exec_vars, disp_vars, tool_vars>>

\* line 116: asyncio.sleep(0.1) is over
LoopSleepDone(l) ==
    /\ loop_pc[l] = "sleep"
    /\ ~loop_cancel[l]
    /\ loop_pc' = [loop_pc EXCEPT ![l] = "check"]
    /\ UNCHANGED <<queue_maxsize, audio_queue, audio_stream, capture_task, is_running,
                   streams, terminated, loop_held, loop_cancel, ctl_pc, ctl_out, ctl_wait,
                   audio_budget, frames_read, consumed, ctl_wait, loop_read,
                   state_vars, exec_vars, disp_vars, tool_vars>>

\* line 111: await self.audio_queue.put(audio_msg) goes through once the
\* queue is not full
LoopPut(l) ==
    /\ loop_pc[l] = "put"
    /\ ~loop_cancel[l]
    /\ ~Full(audio_queue, queue_maxsize)
    /\ audio_queue' = Append(audio_queue, loop_held[l][1])
    /\ loop_held' = [loop_held EXCEPT ![l] = <<>>]
    /\ loop_pc' = [loop_pc EXCEPT ![l] = "check"]
    /\ UNCHANGED <<queue_maxsize, audio_stream, capture_task, is_running,
                   streams, terminated, loop_cancel, ctl_pc, ctl_out, ctl_wait,
                   audio_budget, frames_read, consumed, ctl_wait, loop_read,
                   state_vars, exec_vars, disp_vars, tool_vars>>

\* lines 119-121: CancelledError is raised at the await the loop is
\* suspended in and ends the loop; a worker thread that is inside
\* stream.read is not interrupted by the cancellation of the task
LoopCancelled(l) ==
    /\ loop_pc[l] \in {"reading", "put", "sleep"}
    /\ loop_cancel[l]
    /\ loop_pc' = [loop_pc EXCEPT ![l] = "ended"]
    /\ loop_held' = [loop_held EXCEPT ![l] = <<>>]
    /\ UNCHANGED <<queue_maxsize, audio_queue, audio_stream, capture_task, is_running,
                   streams, terminated, loop_cancel, ctl_pc, ctl_out, ctl_wait,
                   audio_budget, frames_read, consumed, ctl_wait, loop_read,
                   state_vars, exec_vars, disp_vars, tool_vars>>

\* audio_processor.py:98-102: the read of a worker thread returns after
\* the task that awaited it was cancelled; its result is dropped
ThreadReturns(l) ==
    /\ loop_pc[l] = "ended"
    /\ loop_read[l] # <<>>
    /\ loop_read' = [loop_read EXCEPT ![l] = <<>>]
    /\ UNCHANGED <<queue_maxsize, audio_queue, audio_stream, capture_task, is_running,
                   streams, terminated, loop_pc, loop_held, loop_cancel, ctl_pc, ctl_out,
                   audio_budget, frames_read, consumed, ctl_wait,
                   state_vars, exec_vars, disp_vars, tool_vars>>

\* stop_capture, lines 129-135: clear the flag, cancel the task, await it
StopBegin(c) ==
    /\ ctl_pc[c] = "idle"
    /\ audio_budget > 0
    /\ audio_budget' = audio_budget - 1
    /\ is_running' = FALSE
    /\ ctl_out' = [ctl_out EXCEPT ![c] = "none"]
    /\ IF capture_task # <<>>
       THEN /\ loop_cancel' = [loop_cancel EXCEPT ![capture_task[1]] =
                                  @ \/ loop_pc[capture_task[1]] # "ended"]
            /\ ctl_wait' = [ctl_wait EXCEPT ![c] = capture_task]
            /\ ctl_pc' = [ctl_pc EXCEPT ![c] = "joining"]
       ELSE /\ ctl_pc' = [ctl_pc EXCEPT ![c] = "closing"]
            /\ UNCHANGED <<loop_cancel, ctl_wait>>
    /\ UNCHANGED <<queue_maxsize, audio_queue, audio_stream, capture_task,
                   streams, terminated, loop_pc, loop_held,
                   frames_read, consumed, loop_read,
                   state_vars, exec_vars, disp_vars, tool_vars>>

\* lines 135-137: the awaited task is done
StopJoined(c) ==
    /\ ctl_pc[c] = "joining"
    /\ loop_pc[ctl_wait[c][1]] = "ended"
    /\ ctl_pc' = [ctl_pc EXCEPT ![c] = "closing"]
    /\ ctl_wait' = [ctl_wait EXCEPT ![c] = <<>>]
    /\ UNCHANGED <<queue_maxsize, audio_queue, audio_stream, capture_task, is_running,
                   streams, terminated, loop_pc, loop_held, loop_cancel, ctl_out,
                   audio_budget, frames_read, consumed, loop_read,
                   state_vars, exec_vars, disp_vars, tool_vars>>

\* audio_processor.py:141-150: an exception of close() or terminate() is
\* printed inside its own try block; stop_capture returns normally
StopOutcome_Raises(close_ok) == IF close_ok THEN "stopped" ELSE "error"
StopOutcome(close_ok) == "stopped"

\* lines 140-150: close the stream and terminate pyaudio, each in its own
\* try block
StopClose(c) ==
    /\ ctl_pc[c] = "closing"
    /\ \E close_ok \in BOOLEAN :
          /\ IF audio_stream # <<>> /\ close_ok
             THEN streams' = [streams EXCEPT ![audio_stream[1]] = "closed"]
             ELSE UNCHANGED streams
          /\ ctl_out' = [ctl_out EXCEPT ![c] = StopOutcome(audio_stream = <<>> \/ close_ok)]
    /\ terminated' = TRUE
    /\ ctl_pc' = [ctl_pc EXCEPT ![c] = "idle"]
    /\ UNCHANGED <<queue_maxsize, audio_queue, audio_stream, capture_task, is_running,
                   loop_pc, loop_held, loop_cancel,
                   audio_budget, frames_read, consumed, ctl_wait, loop_read,
                   state_vars, exec_vars, disp_vars, tool_vars>>

\* the consumer of get_audio_queue() takes the oldest message
ConsumerGet ==
    /\ audio_queue # <<>>
    /\ consumed' = Append(consumed, Head(audio_queue))
    /\ audio_queue' = Tail(audio_queue)
    /\ UNCHANGED <<queue_maxsize, audio_stream, capture_task, is_running,
                   streams, terminated, loop_pc, loop_held, loop_cancel, ctl_pc, ctl_out, ctl_wait,
                   audio_budget, frames_read, ctl_wait, loop_read,
                   state_vars, exec_vars, disp_vars, tool_vars>>

\* ------------------------------------------------------------ SlideTools
\* slide_tools.py:170: get_recent_transcript(n=20)
SummaryWindow == 20
\* slide_tools.py:185: texts[:5]
KeyPoints == 5
\* slide_tools.py:186: len(text) > 10
MinLength == 10
\* slide_tools.py:187: text[:100]
BulletWidth == 100

\* a text is the sequence of its characters; Text(n) is a text of n characters
Text(n) == [i \in 1..n |-> "x"]

\* state_manager.py:126-133: the entry add_transcript_entry(text) appends
\* while the deck stands on slide 0
Entry(text) == [text |-> text, speaker |-> "user", slide_index |-> 0]

\* the lengths of the texts spoken in a session, repeated in a cycle: all
\* just long enough to count, all just too short, five short ones before
\* each long one, and texts over the bullet width alternating with short ones
Patterns == {<<MinLength + 1>>, <<MinLength>>, <<3, 3, 3, 3, 3, 50>>,
             <<BulletWidth + 1, 3>>}

\* the transcript after n calls of add_transcript_entry with the texts of a
\* pattern
Spoken(n, pat) == [i \in 1..n |-> Entry(Text(pat[((i - 1) % Len(pat)) + 1]))]

\* s[:n] for n >= 0
FirstN(s, n) == SubSeq(s, 1, Min(Len(s), n))

\* slide_tools.py:186: the entries that are not skipped
Qualifies(text) == Len(text) > MinLength

\* slide_tools.py:187: f"- {text[:100]}..."
Bullet(text) == <<"-", " ">> \o FirstN(text, BulletWidth) \o <<".", ".", ".">>

\* slide_tools.py:180-187: summary_bullets
SummaryBullets_FilterFirst(recent) ==
    LET texts == [i \in 1..Len(recent) |-> recent[i].text]
        kept == FirstN(SelectSeq(texts, Qualifies), KeyPoints)
    IN [i \in 1..Len(kept) |-> Bullet(kept[i])]
SummaryBullets(recent) ==
    LET texts == [i \in 1..Len(recent) |-> recent[i].text]
        kept == SelectSeq(FirstN(texts, KeyPoints), Qualifies)
    IN [i \in 1..Len(kept) |-> Bullet(kept[i])]

\* slide_tools.py:189: "\n".join(summary_bullets)
RECURSIVE Join(_)
Join(lines) ==
    IF lines = <<>> THEN <<>>
    ELSE IF Len(lines) = 1 THEN lines[1]
    ELSE lines[1] \o <<"\n">> \o Join(Tail(lines))

\* slide_tools.py:172: if not recent
NothingToSummarize_Never(recent) == FALSE
NothingToSummarize(recent) == recent = <<>>

\* state_manager.py:181-187: InjectionRecord(...)
InjectionRecord(index, cur, placeholder, content_type, content) ==
    [slide_index |-> InjectionSlide(index, cur), placeholder |-> placeholder,
     content_type |-> content_type, content |-> content]

\* state_manager.py:92-106: str(e) of the ValueError navigate raises, <<>>
\* when it raises none
NavigateError(cur, total, direction, index) ==
    LET new_index == IF direction = "next" THEN <<NextIndex(cur, total)>>
                     ELSE IF direction = "prev" THEN <<PrevIndex(cur)>>
                     ELSE IF direction = "jump" THEN index
                     ELSE <<>>
    IN IF direction \notin {"next", "prev", "jump"}
       THEN <<"Invalid direction: ", direction>>
       ELSE IF new_index = <<>>
       THEN <<"Index required for 'jump' navigation">>
       ELSE IF OutOfRange(total, new_index[1])
       THEN <<"Cannot navigate to slide ", new_index[1], " (range: 0-", total - 1, ")">>
       ELSE <<>>

\* state_manager.py:233-241: the dict get_context returns
Context ==
    [current_slide |-> current_slide, total_slides |-> total_slides,
     transcript_entries |-> Len(transcript), injections_count |-> Len(injections),
     recent_transcript |-> RecentFive(transcript),
     session_metadata |-> session_metadata]

\* the except clause of every command: {"action", "success": False, "error"}
FailureEnvelope_Ok(action, message) ==
    [action |-> action, success |-> TRUE, error |-> message]
FailureEnvelope(action, message) ==
    [action |-> action, success |-> FALSE, error |-> message]

\* the commands the session can issue
ToolCall(name) == [name |-> name, direction |-> "", index |-> <<>>, text |-> "",
                   placeholder |-> ""]
ToolCalls ==
    {[ToolCall("navigate_slide") EXCEPT !.direction = d, !.index = i] :
        d \in Directions, i \in {<<>>}}
    \cup {[ToolCall("navigate_slide") EXCEPT !.direction = "jump", !.index = <<i>>] :
             i \in IndexArgs}
    \cup {[ToolCall("inject_image") EXCEPT !.text = "architecture diagram",
                                           !.placeholder = p] : p \in {"AI:IMAGE", "AI:HERO"}}
    \cup {[ToolCall("add_content") EXCEPT !.text = "This is a new bullet point",
                                          !.placeholder = p] : p \in {"AI:CONTENT", "AI:NOTES"}}
    \cup {ToolCall("generate_summary"), ToolCall("get_presentation_context")}

NoToolCall == ToolCall("")
NoToolLocal == [new_index |-> <<>>, current_slide |-> <<>>, recent |-> <<>>,
                summary_bullets |-> <<>>, summary |-> <<>>]
NoEnvelope == [action |-> ""]

\* the first await of every command
FirstStep(name) ==
    IF name = "navigate_slide" THEN "nav_navigate"
    ELSE IF name = "inject_image" THEN "img_slide"
    ELSE IF name = "add_content" THEN "txt_slide"
    ELSE IF name = "generate_summary" THEN "sum_recent"
    ELSE "ctx_get"

InitTools(calls) ==
    /\ tl_pc = "idle"
    /\ tl_call = NoToolCall
    /\ tl_local = NoToolLocal
    /\ tl_out = NoEnvelope
    /\ tl_budget = calls

\* what a step of a command leaves alone besides the StateManager fields
ToolFrame ==
    UNCHANGED <<lock, pc, op, local, ret, entry_state, budget, issued, start_slide,
                exec_vars, disp_vars, audio_vars, held>>

\* the session calls a command of the given set
CallTool(calls) ==
    /\ tl_pc = "idle"
    /\ tl_budget > 0
    /\ \E call \in calls :
          /\ tl_call' = call
          /\ tl_pc' = FirstStep(call.name)
    /\ tl_budget' = tl_budget - 1
    /\ tl_local' = NoToolLocal
    /\ tl_out' = NoEnvelope
    /\ UNCHANGED sm_vars
    /\ ToolFrame

\* the command returns an envelope
ToolReturn(envelope) ==
    /\ tl_out' = envelope
    /\ tl_pc' = "idle"

\* slide_tools.py:52: await self.state.navigate(direction, index); the
\* except clause at 62-67 when it raises
NavigateSlideNavigate ==
    /\ tl_pc = "nav_navigate"
    /\ LockAvailable
    /\ LET r == NavigateResult(current_slide, total_slides, tl_call.direction, tl_call.index)
           e == NavigateError(current_slide, total_slides, tl_call.direction, tl_call.index)
       IN IF r = <<>>
          THEN /\ ToolReturn(FailureEnvelope("navigate", e))
               /\ UNCHANGED <<current_slide, tl_local>>
          ELSE /\ current_slide' = r[1]
               /\ tl_local' = [tl_local EXCEPT !.new_index = r]
               /\ tl_pc' = "nav_total"
               /\ UNCHANGED tl_out
    /\ UNCHANGED <<total_slides, transcript, injections, session_metadata, tl_call, tl_budget>>
    /\ ToolFrame

\* slide_tools.py:53-61: await self.state.get_total_slides() and the return
NavigateSlideTotal ==
    /\ tl_pc = "nav_total"
    /\ LockAvailable
    /\ ToolReturn([action |-> "navigate", direction |-> tl_call.direction,
                   current_slide |-> tl_local.new_index[1],
                   total_slides |-> total_slides, success |-> TRUE])
    /\ UNCHANGED <<sm_vars, tl_call, tl_local, tl_budget>>
    /\ ToolFrame

\* slide_tools.py:88, 135, 192: current_slide = await
\* self.state.get_current_slide()
ReadCurrentSlide ==
    /\ tl_pc \in {"img_slide", "txt_slide", "sum_slide"}
    /\ LockAvailable
    /\ tl_local' = [tl_local EXCEPT !.current_slide = <<current_slide>>]
    /\ tl_pc' = IF tl_pc = "img_slide" THEN "img_track"
                ELSE IF tl_pc = "txt_slide" THEN "txt_track"
                ELSE "sum_track"
    /\ UNCHANGED <<sm_vars, tl_call, tl_out, tl_budget>>
    /\ ToolFrame

\* slide_tools.py:92-111: inject_image tracks the request and returns
InjectImageTrack ==
    /\ tl_pc = "img_track"
    /\ LockAvailable
    /\ injections' = AppendRecord(injections,
          InjectionRecord(tl_local.current_slide, current_slide, tl_call.placeholder, "image",
                          [prompt |-> tl_call.text, status |-> "stub",
                           message |-> "Image generation not yet implemented"]))
    /\ ToolReturn([action |-> "inject_image", placeholder |-> tl_call.placeholder,
                   prompt |-> tl_call.text, slide_index |-> tl_local.current_slide[1],
                   success |-> TRUE, stub |-> TRUE,
                   message |-> "Image generation stub - will be implemented with Imagen API"])
    /\ UNCHANGED <<total_slides, current_slide, transcript, session_metadata,
                   tl_call, tl_local, tl_budget>>
    /\ ToolFrame

\* slide_tools.py:138-151: add_content tracks the text and returns
AddContentTrack ==
    /\ tl_pc = "txt_track"
    /\ LockAvailable
    /\ injections' = AppendRecord(injections,
          InjectionRecord(tl_local.current_slide, current_slide, tl_call.placeholder, "text",
                          tl_call.text))
    /\ ToolReturn([action |-> "inject_content", placeholder |-> tl_call.placeholder,
                   content |-> tl_call.text, slide_index |-> tl_local.current_slide[1],
                   success |-> TRUE])
    /\ UNCHANGED <<total_slides, current_slide, transcript, session_metadata,
                   tl_call, tl_local, tl_budget>>
    /\ ToolFrame

\* slide_tools.py:170-189: generate_summary reads the recent transcript,
\* returns at once when there is none, and builds the summary otherwise
GenerateSummaryRecent ==
    /\ tl_pc = "sum_recent"
    /\ LockAvailable
    /\ LET recent == RecentTranscript(transcript, SummaryWindow)
           bullets == SummaryBullets(recent)
       IN IF NothingToSummarize(recent)
          THEN /\ ToolReturn(FailureEnvelope("generate_summary",
                                             <<"No transcript available to summarize">>))
               /\ UNCHANGED tl_local
          ELSE /\ tl_local' = [tl_local EXCEPT !.recent = recent,
                                               !.summary_bullets = bullets,
                                               !.summary = Join(bullets)]
               /\ tl_pc' = "sum_slide"
               /\ UNCHANGED tl_out
    /\ UNCHANGED <<sm_vars, tl_call, tl_budget>>
    /\ ToolFrame

\* slide_tools.py:193-207: generate_summary tracks the summary and returns
GenerateSummaryTrack ==
    /\ tl_pc = "sum_track"
    /\ LockAvailable
    /\ injections' = AppendRecord(injections,
          InjectionRecord(tl_local.current_slide, current_slide, "AI:SUMMARY", "summary",
                          tl_local.summary))
    /\ ToolReturn([action |-> "inject_summary", summary |-> tl_local.summary,
                   slide_index |-> tl_local.current_slide[1], success |-> TRUE,
                   stub |-> TRUE,
                   message |-> "Basic summary - will be improved with Gemini API"])
    /\ UNCHANGED <<total_slides, current_slide, transcript, session_metadata,
                   tl_call, tl_local, tl_budget>>
    /\ ToolFrame

\* slide_tools.py:225-230: get_presentation_context returns the context
\* under the keys action and success
GetPresentationContext ==
    /\ tl_pc = "ctx_get"
    /\ LockAvailable
    /\ ToolReturn(Context @@ [action |-> "get_context", success |-> TRUE])
    /\ UNCHANGED <<sm_vars, tl_call, tl_local, tl_budget>>
    /\ ToolFrame

\* the task running a command is cancelled while it waits for the lock:
\* CancelledError is not an Exception and leaves the command
ToolCancelled ==
    /\ tl_pc # "idle"
    /\ ~LockAvailable
    /\ tl_out' = Propagated("CancelledError")
    /\ tl_pc' = "idle"
    /\ UNCHANGED <<sm_vars, tl_call, tl_local, tl_budget>>
    /\ ToolFrame

\* a step of the command that is running
ToolStep ==
    \/ NavigateSlideNavigate \/ NavigateSlideTotal \/ ReadCurrentSlide
    \/ InjectImageTrack \/ AddContentTrack \/ GenerateSummaryRecent
    \/ GenerateSummaryTrack \/ GetPresentationContext

\* ------------------------------------------------------- specifications
\* StateManager.__init__(total_slides) followed by nothing yet
InitTasks(calls) ==
    /\ lock = <<>>
    /\ pc = [t \in Tasks |-> "idle"]
    /\ op = [t \in Tasks |-> NoOp]
    /\ local = [t \in Tasks |-> NoLocal]
    /\ ret = [t \in Tasks |-> NoRet]
    /\ entry_state = [t \in Tasks |-> NoEntry]
    /\ budget = calls
    /\ issued = [t \in Tasks |-> [transcript |-> 0, injections |-> 0]]
    /\ held = NoView

\* StateManager(total_slides=T): state_manager.py:41-56
InitStateManager(T) ==
    /\ total_slides = T
    /\ current_slide = 0
    /\ transcript = <<>>
    /\ injections = <<>>
    /\ session_metadata = FreshMetadata
    /\ start_slide = 0

\* Spec: the StateManager operations that write a field, and get_context,
\* called by concurrent tasks, on an unbounded deck (total_slides = 0) and on
\* a deck of MaxTotal slides
Init ==
    /\ \E T \in {0, MaxTotal} : InitStateManager(T)
    /\ InitTasks(MaxCalls)
    /\ InitExecutor
    /\ InitAudio(DefaultQueueMaxsize)
    /\ InitTools(0)

Next ==
    \E t \in Tasks :
        \/ Acquire(t) \/ CancelWaiting(t) \/ Release(t)
        \/ CallSetCurrentSlide(t) \/ SetCurrentSlideCheck(t) \/ SetCurrentSlideWrite(t)
        \/ CallNavigate(t) \/ NavigateCompute(t) \/ NavigateValidate(t) \/ NavigateWrite(t)
        \/ CallAddTranscriptEntry(t) \/ AddTranscriptEntryBuild(t) \/ AddTranscriptEntryAppend(t)
        \/ CallTrackInjection(t) \/ TrackInjectionBuild(t) \/ TrackInjectionAppend(t)
        \/ CallSetTotalSlides(t) \/ SetTotalSlidesWrite(t)
        \/ CallGetContext(t) \/ GetContextSlides(t) \/ GetContextCounts(t) \/ GetContextRecent(t)
        \/ CallSetMetadata(t) \/ SetMetadataWrite(t)
        \/ CallClearTranscript(t) \/ ClearTranscript(t)
        \/ CallClearInjections(t) \/ ClearInjections(t)
        \/ CallReset(t) \/ ResetSlide(t) \/ ResetTranscript(t) \/ ResetInjections(t)
        \/ ResetMetadata(t)

Spec == Init /\ [][Next]_vars

\* SpecNav: a fresh StateManager on which the tasks only call navigate
NextNav ==
    \E t \in Tasks :
        \/ CallNavigate(t) \/ Acquire(t) \/ NavigateCompute(t) \/ NavigateValidate(t)
        \/ NavigateWrite(t) \/ Release(t)

SpecNav == Init /\ [][NextNav]_vars

\* SpecNext: a bounded deck standing on any slide s (reached by
\* set_current_slide(s)), on which the tasks only call navigate("next")
InitNext ==
    /\ \E T \in 1..MaxDeck : \E s \in 0..(T - 1) :
          /\ total_slides = T
          /\ current_slide = s
          /\ start_slide = s
    /\ transcript = <<>>
    /\ injections = <<>>
    /\ session_metadata = FreshMetadata
    /\ InitTasks(MaxNavCalls)
    /\ InitExecutor
    /\ InitAudio(DefaultQueueMaxsize)
    /\ InitTools(0)

NextNext ==
    \E t \in Tasks :
        \/ CallNavigateNext(t) \/ Acquire(t) \/ NavigateCompute(t) \/ NavigateValidate(t)
        \/ NavigateWrite(t) \/ Release(t)

SpecNext == InitNext /\ [][NextNext]_vars

\* SpecStep: a bounded deck standing on any slide, on which the tasks call
\* navigate("next") and navigate("prev")
NextStep ==
    \E t \in Tasks :
        \/ CallNavigateStep(t) \/ Acquire(t) \/ NavigateCompute(t) \/ NavigateValidate(t)
        \/ NavigateWrite(t) \/ Release(t)

SpecStep == InitNext /\ [][NextStep]_vars

\* SpecAppend: tasks append to both logs while others navigate
InitAppend ==
    /\ InitStateManager(MaxDeck)
    /\ InitTasks(MaxAppendCalls)
    /\ InitExecutor
    /\ InitAudio(DefaultQueueMaxsize)
    /\ InitTools(0)

NextAppend ==
    \E t \in Tasks :
        \/ CallTrackInjection(t) \/ TrackInjectionBuild(t) \/ TrackInjectionAppend(t)
        \/ CallAddTranscriptEntry(t) \/ AddTranscriptEntryBuild(t)
        \/ AddTranscriptEntryAppend(t)
        \/ CallNavigateNext(t) \/ NavigateCompute(t) \/ NavigateValidate(t)
        \/ NavigateWrite(t)
        \/ Acquire(t) \/ Release(t)

SpecAppend == InitAppend /\ [][NextAppend]_vars

\* SpecExec: a ToolExecutor on which tools are registered and executed, next
\* to a StateManager that holds a deck of MaxTotal slides
InitExec ==
    /\ InitStateManager(MaxTotal)
    /\ InitTasks(0)
    /\ InitExecutor
    /\ InitAudio(DefaultQueueMaxsize)
    /\ InitTools(0)

NextExec ==
    \/ RegisterTool \/ ExecuteTool \/ ExecuteLookup \/ ExecuteInvoke
    \/ HandlerFinishes \/ ExecuteCancelled \/ ExecuteDone

SpecExec == InitExec /\ [][NextExec]_vars

\* the registry after register_tool("sample_func", sample_func, ...) and
\* register_tool("error_tool", error_tool, ...)
DispatchTools == ("sample_func" :> SampleFunc) @@ ("error_tool" :> ErrorTool)
DispatchDeclarations == ("sample_func" :> "decl_a") @@ ("error_tool" :> "decl_b")

\* SpecDispatch: handle_tool_calls running on a session, with the tools of
\* tests/test_tool_executor.py registered beforehand
InitDispatch ==
    /\ InitStateManager(0)
    /\ InitTasks(0)
    /\ tools = DispatchTools
    /\ declarations = DispatchDeclarations
    /\ reg_out = <<[status |-> "ok", name |-> "error_tool"]>>
    /\ exec_pc = "idle"
    /\ exec_call = NoCall
    /\ exec_out = NoOut
    /\ exec_entry = <<>>
    /\ invoked = <<>>
    /\ hd_pc = "receive"
    /\ hd_resp = NoResponse
    /\ hd_next = 0
    /\ hd_batch = <<>>
    /\ hd_sent = <<>>
    /\ hd_done = "none"
    /\ hd_out = "none"
    /\ hd_budget = MaxResponses
    /\ hd_caught = FALSE
    /\ InitAudio(DefaultQueueMaxsize)
    /\ InitTools(0)

NextDispatch ==
    \/ DispatchReceive \/ DispatchIterate \/ DispatchResponse \/ DispatchExecute
    \/ ExecuteLookup \/ ExecuteInvoke \/ HandlerFinishes \/ ExecuteCancelled
    \/ DispatchCollect \/ DispatchSend \/ DispatchSendDone \/ DispatchSleepDone
    \/ DispatchCancelled

SpecDispatch == InitDispatch /\ [][NextDispatch]_vars

\* SpecDispatchLive: the same, where asyncio.sleep(0.1) always comes to an
\* end unless the task is cancelled first
SpecDispatchLive ==
    InitDispatch /\ [][NextDispatch]_vars /\ WF_vars(DispatchSleepDone \/ DispatchCancelled)

\* an AudioProcessor of any small capacity (0 is an unbounded queue)
InitCapture ==
    /\ InitStateManager(0)
    /\ InitTasks(0)
    /\ InitExecutor
    /\ \E maxsize \in 0..MaxCapacity : InitAudio(maxsize)
    /\ InitTools(0)

\* SpecAudio: start_capture and stop_capture called in any order by
\* concurrent callers, the capture loops, and a consumer draining the queue
NextAudio ==
    \/ \E c \in Ctrls : \/ StartBegin(c) \/ StartOpened(c) \/ StartOpenFails(c)
                        \/ StopBegin(c) \/ StopJoined(c) \/ StopClose(c)
    \/ \E l \in Loops : \/ LoopStart(l) \/ LoopCheck(l) \/ LoopReadDone(l)
                        \/ LoopReadError(l) \/ LoopSleepDone(l) \/ LoopPut(l)
                        \/ LoopCancelled(l)
    \/ ConsumerGet

SpecAudio == InitCapture /\ [][NextAudio]_vars

\* the task that owns the processor: the one caller of start_capture and
\* stop_capture in a session
Owner == 1

\* one session: the owner calls start_capture and stop_capture one after the
\* other; the capture loops and the consumer run beside it
NextSession ==
    \/ StartBegin(Owner) \/ StartOpened(Owner) \/ StartOpenFails(Owner)
    \/ StopBegin(Owner) \/ StopJoined(Owner) \/ StopClose(Owner)
    \/ \E l \in Loops : \/ LoopStart(l) \/ LoopCheck(l) \/ LoopReadDone(l)
                        \/ LoopReadError(l) \/ LoopSleepDone(l) \/ LoopPut(l)
                        \/ LoopCancelled(l)
    \/ ConsumerGet

\* SpecStop: one session, with the worker threads of the reads: the read of
\* a cancelled loop returns in its thread at some later moment
NextStop ==
    \/ NextSession
    \/ \E l \in Loops : ThreadReturns(l)

SpecStop == InitCapture /\ [][NextStop]_vars

\* SpecAudioLive: a session on a device whose reads return data again and
\* again; the event loop runs every task that is ready, a sleep comes to an
\* end, and a put goes through once the queue has room
SpecAudioLive ==
    /\ InitCapture
    /\ [][NextSession]_vars
    /\ \A l \in Loops :
          /\ WF_vars(LoopStart(l) \/ LoopCheck(l) \/ LoopSleepDone(l) \/ LoopPut(l)
                        \/ LoopCancelled(l))
          /\ SF_vars(LoopReadDone(l))

\* the task that steps through the deck while the commands run
Presenter == 1

\* SpecTools: the SlideTools commands called one after the other by the
\* dispatcher while the presenter steps through the deck, on an unbounded
\* deck and on a deck of MaxTotal slides, with nothing said yet or one
\* sentence
InitToolSession ==
    /\ \E T \in {0, MaxTotal} : total_slides = T
    /\ current_slide = 0
    /\ start_slide = 0
    /\ \E n \in 0..1 : transcript = Spoken(n, <<MinLength + 1>>)
    /\ injections = <<>>
    /\ session_metadata = FreshMetadata
    /\ InitTasks(MaxCalls)
    /\ InitExecutor
    /\ InitAudio(DefaultQueueMaxsize)
    /\ InitTools(MaxToolCalls)

NextTools ==
    \/ CallTool(ToolCalls) \/ ToolStep \/ ToolCancelled
    \/ CallNavigateStep(Presenter) \/ NavigateCompute(Presenter)
    \/ NavigateValidate(Presenter) \/ NavigateWrite(Presenter)
    \/ Acquire(Presenter) \/ Release(Presenter)

SpecTools == InitToolSession /\ [][NextTools]_vars

\* SpecSummary: generate_summary called on the transcripts of sessions of up
\* to MaxEntries sentences
InitSummary ==
    /\ total_slides = MaxTotal
    /\ current_slide = 0
    /\ start_slide = 0
    /\ \E n \in 0..MaxEntries, pat \in Patterns : transcript = Spoken(n, pat)
    /\ injections = <<>>
    /\ session_metadata = FreshMetadata
    /\ InitTasks(0)
    /\ InitExecutor
    /\ InitAudio(DefaultQueueMaxsize)
    /\ InitTools(MaxToolCalls)

NextSummary ==
    \/ CallTool({ToolCall("generate_summary")})
    \/ GenerateSummaryRecent \/ ReadCurrentSlide \/ GenerateSummaryTrack

SpecSummary == InitSummary /\ [][NextSummary]_vars

\* the transcript after n calls of add_transcript_entry made on slide 0 by
\* an earlier task (task 0): state_manager.py:125-133
PriorTranscript(n) ==
    [i \in 1..n |-> [text |-> <<0, i>>, speaker |-> "user", slide_index |-> 0]]

\* a log of n records made on the slides of a deck in turn by an earlier
\* task (task 0): state_manager.py:126-133 and 180-188
PriorLog(n, injection) ==
    [i \in 1..n |->
        IF injection
        THEN [slide_index |-> i % MaxTotal, placeholder |-> "AI:CONTENT",
              content_type |-> "text", content |-> <<0, i>>]
        ELSE [text |-> <<0, i>>, speaker |-> "user", slide_index |-> i % MaxTotal]]

\* SpecView: the calls of one task, one after the other: read operations
\* whose value the task keeps, among appends, clears, set_metadata and
\* navigation, on logs that already hold records of several slides
InitView ==
    /\ total_slides = MaxTotal
    /\ current_slide = 0
    /\ start_slide = 0
    /\ \E n \in {0, MaxPrior} :
          /\ transcript = PriorLog(n, FALSE)
          /\ injections = PriorLog(n, TRUE)
    /\ session_metadata = FreshMetadata
    /\ InitTasks(MaxViewCalls)
    /\ InitExecutor
    /\ InitAudio(DefaultQueueMaxsize)
    /\ InitTools(0)

NextView ==
    \E t \in {Presenter} :
        \/ CallGetContext(t) \/ GetContextSlides(t) \/ GetContextCounts(t)
        \/ GetContextRecent(t)
        \/ CallGetRecentTranscript(t) \/ GetRecentTranscript(t)
        \/ CallGetTranscriptForSlide(t) \/ GetTranscriptForSlide(t)
        \/ CallGetInjectionsForSlide(t) \/ GetInjectionsForSlide(t)
        \/ CallGetAllInjections(t) \/ GetAllInjections(t)
        \/ Keep(t)
        \/ CallAddTranscriptEntry(t) \/ AddTranscriptEntryBuild(t)
        \/ AddTranscriptEntryAppend(t)
        \/ CallTrackInjection(t) \/ TrackInjectionBuild(t) \/ TrackInjectionAppend(t)
        \/ CallSetMetadata(t) \/ SetMetadataWrite(t)
        \/ CallClearTranscript(t) \/ ClearTranscript(t)
        \/ CallClearInjections(t) \/ ClearInjections(t)
        \/ CallNavigateNext(t) \/ NavigateCompute(t) \/ NavigateValidate(t)
        \/ NavigateWrite(t)
        \/ Acquire(t) \/ Release(t)

SpecView == InitView /\ [][NextView]_vars

\* SpecCtx: get_context against concurrent mutations, on a transcript that
\* already holds up to MaxLog entries
InitCtx ==
    /\ total_slides = MaxTotal
    /\ current_slide = 0
    /\ start_slide = 0
    /\ \E n \in 0..MaxLog : transcript = PriorTranscript(n)
    /\ injections = <<>>
    /\ session_metadata = FreshMetadata
    /\ InitTasks(MaxCtxCalls)
    /\ InitExecutor
    /\ InitAudio(DefaultQueueMaxsize)
    /\ InitTools(0)

NextCtx ==
    \E t \in Tasks :
        \/ CallGetContext(t) \/ GetContextSlides(t) \/ GetContextCounts(t)
        \/ GetContextRecent(t)
        \/ CallAddTranscriptEntry(t) \/ AddTranscriptEntryBuild(t)
        \/ AddTranscriptEntryAppend(t)
        \/ CallTrackInjection(t) \/ TrackInjectionBuild(t) \/ TrackInjectionAppend(t)
        \/ CallClearTranscript(t) \/ ClearTranscript(t)
        \/ CallNavigateNext(t) \/ NavigateCompute(t) \/ NavigateValidate(t)
        \/ NavigateWrite(t)
        \/ Acquire(t) \/ Release(t)

SpecCtx == InitCtx /\ [][NextCtx]_vars

\* SpecRecent: get_recent_transcript on a transcript that already holds up
\* to MaxLog entries, while other tasks append to it and clear it
NextRecent ==
    \E t \in Tasks :
        \/ CallGetRecentTranscript(t) \/ GetRecentTranscript(t)
        \/ CallAddTranscriptEntry(t) \/ AddTranscriptEntryBuild(t)
        \/ AddTranscriptEntryAppend(t)
        \/ CallClearTranscript(t) \/ ClearTranscript(t)
        \/ Acquire(t) \/ Release(t)

SpecRecent == InitCtx /\ [][NextRecent]_vars

\* ------------------------------------------------------------ properties
\* a task is inside a critical section of the StateManager
InCS(t) == pc[t] \notin {"idle", "acquire"}

RECURSIVE SumOver(_, _)
SumOver(S, f) ==
    IF S = {} THEN 0
    ELSE LET x == CHOOSE y \in S : TRUE IN f[x] + SumOver(S \ {x}, f)

\* C1: in every reachable state, total_slides > 0 implies
\* 0 <= current_slide < total_slides.
C1_SlideWithinTotal ==
    total_slides > 0 => (0 <= current_slide /\ current_slide < total_slides)

\* C2: at most one task is inside a critical section, the lock is held
\* exactly by the task that is inside one (so it is free again after a
\* return, after a ValueError and after a cancelled wait), and while a reset
\* is half done no other task is inside a critical section.
C2_MutualExclusion ==
    /\ \A a, b \in Tasks : (InCS(a) /\ InCS(b)) => a = b
    /\ \A t \in Tasks : InCS(t) <=> lock = <<t>>
    /\ (\A t \in Tasks : ~InCS(t)) => lock = <<>>
    /\ \A t \in Tasks :
          pc[t] \in {"reset_transcript", "reset_injections", "reset_metadata"}
             => \A u \in Tasks \ {t} : pc[u] \in {"idle", "acquire"}

\* C2 witness: one task was cancelled while it waited for the lock and the
\* task that held the lock is leaving its operation with a ValueError
C2_Witness ==
    \E a, b \in Tasks :
        /\ pc[a] = "idle"
        /\ ret[a].status = "CancelledError"
        /\ pc[b] = "release"
        /\ ret[b].status = "ValueError"

\* the calls C8 names as validation failures, for a deck of T slides
IsValidationFailure(c, T) ==
    \/ /\ c.name = "set_current_slide"
       /\ T > 0
       /\ (c.arg < 0 \/ c.arg >= T)
    \/ /\ c.name = "navigate"
       /\ c.direction = "jump"
       /\ c.index # <<>>
       /\ T > 0
       /\ (c.index[1] < 0 \/ c.index[1] >= T)
    \/ /\ c.name = "navigate"
       /\ c.direction = "jump"
       /\ c.index = <<>>
    \/ /\ c.name = "navigate"
       /\ c.direction \notin {"next", "prev", "jump"}

\* C8: a call that is a validation failure ends with ValueError, and a call
\* that ends with ValueError leaves the five fields as they were when the
\* call entered its critical section.
C8_FailureMutatesNothing ==
    \A t \in Tasks :
        pc[t] = "release" =>
            /\ IsValidationFailure(op[t], entry_state[t][1].total_slides)
                  => ret[t].status = "ValueError"
            /\ ret[t].status = "ValueError" => SMState = entry_state[t][1]

\* C8 witness: a jump out of range fails on a StateManager that an earlier
\* call has already changed
C8_Witness ==
    \E t \in Tasks :
        /\ pc[t] = "release"
        /\ ret[t].status = "ValueError"
        /\ op[t].name = "navigate"
        /\ op[t].direction = "jump"
        /\ op[t].index # <<>>
        /\ total_slides > 0
        /\ SMState # [current_slide |-> 0, total_slides |-> total_slides,
                      transcript |-> <<>>, injections |-> <<>>,
                      session_metadata |-> FreshMetadata]

\* number of navigate calls that have written current_slide
NavCommitted ==
    (MaxNavCalls - budget)
      - Cardinality({t \in Tasks : pc[t] \in {"acquire", "nav_compute",
                                               "nav_validate", "nav_write"}})

\* C4: after k navigate("next") calls have committed, from slide s on a
\* deck of T slides, current_slide = min(s + k, T - 1), and a call returns
\* the value it committed.
C4_NoLostNavigation ==
    /\ current_slide = Min(start_slide + NavCommitted, total_slides - 1)
    /\ \A t \in Tasks :
          pc[t] = "release" => (ret[t].status = "ok" /\ ret[t].value = <<current_slide>>)

\* C4 witness: all calls are done and every one of them moved the slide
C4_Witness ==
    /\ budget = 0
    /\ \A t \in Tasks : pc[t] = "idle"
    /\ current_slide = start_slide + MaxNavCalls
    /\ current_slide < total_slides - 1

\* the appends of task t to a log that have reached the log
Appended(t, name, n) ==
    IF op[t].name = name /\ pc[t] # "release" THEN n - 1 ELSE n

\* the tags <<task, k>> of the records of task t, in log order
TagsOf(tags, t) ==
    LET ByTask(x) == x[1] = t IN SelectSeq(tags, ByTask)

\* C5: each log holds exactly the records of the appends that have been
\* made, the records of each task once each and in the order of issue.
C5_NoLostAppend ==
    LET injTags == [i \in 1..Len(injections) |-> injections[i].content]
        trTags == [i \in 1..Len(transcript) |-> transcript[i].text]
        injDone == [t \in Tasks |-> Appended(t, "track_injection", issued[t].injections)]
        trDone == [t \in Tasks |-> Appended(t, "add_transcript_entry", issued[t].transcript)]
    IN /\ Len(injections) = SumOver(Tasks, injDone)
       /\ Len(transcript) = SumOver(Tasks, trDone)
       /\ \A t \in Tasks :
             /\ TagsOf(injTags, t) = [k \in 1..injDone[t] |-> <<t, k>>]
             /\ TagsOf(trTags, t) = [k \in 1..trDone[t] |-> <<t, k>>]

\* C5 witness: everything is done, two tasks have appended to the
\* injection log and a navigation went in between
C5_Witness ==
    /\ budget = 0
    /\ \A t \in Tasks : pc[t] = "idle"
    /\ \E a, b \in Tasks : a # b /\ issued[a].injections > 0 /\ issued[b].injections > 0
    /\ \E i, j \in 1..Len(injections) : injections[i].slide_index # injections[j].slide_index

\* C6: the result of get_context describes the state in which the call
\* entered its critical section, with recent_transcript the last
\* min(5, transcript_entries) entries of that state's transcript.
C6_ContextIsOneState ==
    \A t \in Tasks :
        (pc[t] = "release" /\ op[t].name = "get_context") =>
            LET c == ret[t].value[1]
                s == entry_state[t][1]
                n == Len(s.transcript)
                m == Min(5, n)
            IN /\ c.current_slide = s.current_slide
               /\ c.total_slides = s.total_slides
               /\ c.transcript_entries = n
               /\ c.injections_count = Len(s.injections)
               /\ c.recent_transcript = [i \in 1..m |-> s.transcript[n - m + i]]

\* C6 witness: get_context returns on a transcript of more than 5 entries
\* while another task waits to append
C6_Witness ==
    \E t, u \in Tasks :
        /\ pc[t] = "release"
        /\ op[t].name = "get_context"
        /\ ret[t].value[1].transcript_entries > 5
        /\ pc[u] = "acquire"
        /\ op[u].name = "add_transcript_entry"

\* C9: with total_slides = T > 0, current_slide is within [0, T) after
\* every navigate call, whether it succeeded or failed, and a call that
\* succeeds returns an index within [0, T).
C9_NavigateStaysInDeck ==
    total_slides > 0 =>
        /\ current_slide \in 0..(total_slides - 1)
        /\ \A t \in Tasks :
              (pc[t] = "release" /\ ret[t].status = "ok")
                 => ret[t].value[1] \in 0..(total_slides - 1)

\* C9 witness: a jump has failed on a deck that is not on its first slide
C9_Witness ==
    \E t \in Tasks :
        /\ pc[t] = "release"
        /\ ret[t].status = "ValueError"
        /\ op[t].direction = "jump"
        /\ total_slides > 0
        /\ current_slide > 0

\* C10: with total_slides = 0, navigate("next") from current_slide = c sets
\* current_slide to c + 1 and returns c + 1.
C10_UnboundedNextAdvances ==
    \A t \in Tasks :
        (/\ pc[t] = "release"
         /\ op[t].name = "navigate"
         /\ op[t].direction = "next"
         /\ entry_state[t][1].total_slides = 0) =>
            /\ ret[t].status = "ok"
            /\ ret[t].value = <<entry_state[t][1].current_slide + 1>>
            /\ current_slide = entry_state[t][1].current_slide + 1

\* C3: execute_tool never raises to its caller, and the response it returns
\* carries the call id and the name it was given: for an unknown name, for
\* arguments that do not bind, for a handler that raises and for a handler
\* that returns.  (The cancellation of the calling task is not a result.)
C3_UniformResult ==
    exec_pc = "returned" =>
        \/ exec_out.kind = "cancelled"
        \/ /\ exec_out.kind = "response"
           /\ exec_out.id = exec_call.id
           /\ exec_out.name = exec_call.name

\* C3 witness: a registered handler was called with arguments that do not
\* match its parameters and the caller got an error response
C3_Witness ==
    /\ exec_pc = "returned"
    /\ exec_call.name \in DOMAIN tools
    /\ ~Binds(tools[exec_call.name], DOMAIN exec_call.args)
    /\ exec_out.kind = "response"
    /\ exec_out.response.result = "error"
    /\ exec_out.id = exec_call.id

\* the messages that are in the hands of the program: taken by the
\* consumer, waiting in the queue, or held by a loop suspended in put
MessagesInHand ==
    LET holding == {l \in Loops : loop_held[l] # <<>>}
    IN [n \in 1..frames_read |->
          Cardinality({i \in 1..Len(consumed) : consumed[i].data = n})
        + Cardinality({i \in 1..Len(audio_queue) : audio_queue[i].data = n})
        + Cardinality({l \in holding : loop_held[l][1].data = n})]

\* no stop_capture has been called so far: none is under way and none has
\* reached pya.terminate()
StillCapturing ==
    /\ ~terminated
    /\ \A c \in Ctrls : ctl_pc[c] \notin {"joining", "closing"}

\* C7: with a capacity C >= 1 the queue never holds more than C messages,
\* and as long as stop_capture has not been called every frame that was read
\* is in the queue, with the consumer, or held by the loop waiting in put:
\* none is dropped.
C7_Backpressure ==
    queue_maxsize >= 1 =>
        /\ Len(audio_queue) <= queue_maxsize
        /\ StillCapturing => \A n \in 1..frames_read : MessagesInHand[n] = 1

\* C7 witness: the queue is full, the loop is suspended in put with one more
\* frame, and the consumer has already taken a frame
C7_Witness ==
    /\ queue_maxsize >= 1
    /\ Len(audio_queue) = queue_maxsize
    /\ \E l \in Loops : loop_pc[l] = "put" /\ loop_held[l] # <<>>
    /\ consumed # <<>>
    /\ StillCapturing

\* C11: on a deck of T > 0 slides standing on slide c in [0, T),
\* navigate("next") commits and returns c + 1, or T - 1 when c is the last
\* slide, and navigate("prev") commits and returns c - 1, or 0 when c is the
\* first slide; neither raises.
C11_StepClamps ==
    \A t \in Tasks :
        (/\ pc[t] = "release"
         /\ op[t].name = "navigate"
         /\ op[t].direction \in {"next", "prev"}
         /\ entry_state[t][1].total_slides > 0
         /\ entry_state[t][1].current_slide \in 0..(entry_state[t][1].total_slides - 1)) =>
            LET c == entry_state[t][1].current_slide
                T == entry_state[t][1].total_slides
                expected == IF op[t].direction = "next"
                            THEN (IF c = T - 1 THEN T - 1 ELSE c + 1)
                            ELSE (IF c = 0 THEN 0 ELSE c - 1)
            IN /\ ret[t].status = "ok"
               /\ ret[t].value = <<expected>>
               /\ current_slide = expected
               /\ total_slides = T

\* C11 witness: navigate("prev") returns 0 on the first slide of a deck that
\* an earlier call had to bring back there
C11_Witness ==
    \E t \in Tasks :
        /\ pc[t] = "release"
        /\ op[t].direction = "prev"
        /\ entry_state[t][1].current_slide = 0
        /\ ret[t].status = "ok"
        /\ ret[t].value = <<0>>
        /\ current_slide = 0
        /\ start_slide > 0

\* C12: get_recent_transcript(n) with n <= 0 returns the empty sequence
\* whatever the transcript holds, and on an empty transcript it returns the
\* empty sequence for every n.
C12_NothingRecent ==
    \A t \in Tasks :
        (/\ pc[t] = "release"
         /\ op[t].name = "get_recent_transcript"
         /\ (op[t].arg <= 0 \/ entry_state[t][1].transcript = <<>>)) =>
            /\ ret[t].status = "ok"
            /\ ret[t].value = << <<>> >>

\* C13: get_recent_transcript(n) with n >= 1 on a transcript of k entries
\* returns the last min(n, k) entries in insertion order, the last one being
\* the most recently appended, and leaves the transcript as it is.
C13_RecentIsTail ==
    \A t \in Tasks :
        (/\ pc[t] = "release"
         /\ op[t].name = "get_recent_transcript"
         /\ op[t].arg >= 1) =>
            LET tr == entry_state[t][1].transcript
                k == Len(tr)
                m == IF op[t].arg <= k THEN op[t].arg ELSE k
            IN /\ ret[t].status = "ok"
               /\ Len(ret[t].value[1]) = m
               /\ \A i \in 1..m : ret[t].value[1][i] = tr[k - m + i]
               /\ transcript = tr

\* C13 witness: fewer entries are asked for than the transcript holds, and
\* the transcript ends with an entry another task appended after the start
C13_Witness ==
    \E t \in Tasks :
        /\ pc[t] = "release"
        /\ op[t].name = "get_recent_transcript"
        /\ op[t].arg = 2
        /\ Len(transcript) > 2
        /\ transcript[Len(transcript)].text[1] # 0
        /\ ret[t].value[1][2] = transcript[Len(transcript)]

\* C14: execute_tool with a name that is not registered returns the response
\* "error: unknown function" with an error message, carrying the call id and
\* the name, without invoking a handler and without changing the registry or
\* the StateManager.
C14_UnknownTool ==
    (exec_pc = "returned" /\ exec_call.name \notin DOMAIN exec_entry[1].tools) =>
        /\ exec_out.kind = "response"
        /\ exec_out.id = exec_call.id
        /\ exec_out.name = exec_call.name
        /\ exec_out.response.result = "error: unknown function"
        /\ exec_out.response.error = <<"Unknown function", exec_call.name>>
        /\ invoked = <<>>
        /\ tools = exec_entry[1].tools
        /\ declarations = exec_entry[1].declarations
        /\ SMState = exec_entry[1].state

\* C14 witness: an unknown name is answered on an executor that has tools
\* registered and has already moved the deck through navigate_slide
C14_Witness ==
    /\ exec_pc = "returned"
    /\ exec_call.name \notin DOMAIN tools
    /\ exec_call.id = "id2"
    /\ exec_out.kind = "response"
    /\ exec_out.id = "id2"
    /\ tools # <<>>
    /\ current_slide > 0

\* C15: when the handler registered under the name raises an error,
\* execute_tool returns the response "error" whose error field is the message
\* of that error, carrying the call id; nothing is raised to the caller.
C15_HandlerErrorReported ==
    (/\ exec_pc = "returned"
     /\ invoked # <<>>
     /\ tools[exec_call.name].raises # ""
     /\ exec_out.kind # "cancelled") =>
        /\ exec_out.kind = "response"
        /\ exec_out.id = exec_call.id
        /\ exec_out.name = exec_call.name
        /\ exec_out.response.result = "error"
        /\ exec_out.response.error = tools[exec_call.name].message

\* C15 witness: error_tool, registered under some name, has raised and its
\* message is in the response
C15_Witness ==
    /\ exec_pc = "returned"
    /\ invoked = <<[fn |-> "error_tool", args |-> Empty]>>
    /\ exec_out.kind = "response"
    /\ exec_out.response.result = "error"
    /\ exec_out.response.error = "Intentional error"
    /\ exec_out.id = exec_call.id

\* C16: when the handler registered under the name returns v for the given
\* arguments, execute_tool has invoked that handler exactly once, with those
\* arguments, and returns the response "success" with data = v.
C16_HandlerSuccess ==
    (/\ exec_pc = "returned"
     /\ invoked # <<>>
     /\ tools[exec_call.name].raises = ""
     /\ exec_out.kind # "cancelled") =>
        LET h == tools[exec_call.name]
            before == exec_entry[1].state
            v == HandlerResult(h, exec_call.args, before.current_slide, before.total_slides)
        IN /\ invoked = <<[fn |-> h.fn, args |-> exec_call.args]>>
           /\ exec_out.kind = "response"
           /\ exec_out.id = exec_call.id
           /\ exec_out.name = exec_call.name
           /\ exec_out.response.result = "success"
           /\ exec_out.response.data = v
           /\ current_slide =
                 HandlerEffect(h, exec_call.args, before.current_slide, before.total_slides)

\* C16 witness: navigate_slide was invoked with direction "next", has moved
\* the deck by one slide and its envelope is the data of the response
C16_Witness ==
    /\ exec_pc = "returned"
    /\ invoked = <<[fn |-> "navigate_slide", args |-> [direction |-> "next"]]>>
    /\ exec_out.kind = "response"
    /\ exec_out.response.result = "success"
    /\ exec_out.response.data.success
    /\ exec_out.response.data.current_slide = exec_entry[1].state.current_slide + 1
    /\ current_slide = exec_entry[1].state.current_slide + 1

\* what C17 asks of every step
RegistryStep ==
    /\ DOMAIN tools' = DOMAIN declarations'
    /\ \A n \in DOMAIN tools :
          /\ n \in DOMAIN tools'
          /\ tools'[n] = tools[n]
          /\ declarations'[n] = declarations[n]
    /\ (reg_out' # reg_out \/ tools' # tools \/ declarations' # declarations) =>
          LET r == reg_out'[1] IN
             /\ r.status \in {"ok", "ValueError: already registered",
                               "ValueError: must be an async function"}
             /\ r.name \in DOMAIN tools => r.status = "ValueError: already registered"
             /\ r.status # "ok" => (tools' = tools /\ declarations' = declarations)
             /\ r.status = "ok" =>
                   /\ r.name \notin DOMAIN tools
                   /\ DOMAIN tools' = DOMAIN tools \cup {r.name}
                   /\ tools'[r.name].is_async

\* C17: register_tool fails for a name that is already registered and a
\* registration succeeds only with an async handler; a failed registration
\* leaves the registry as it was, a successful one adds one new name, the
\* handler and declaration first registered under a name are kept, and the
\* handler map and the declaration map have the same names.
C17_RegistryContract == [][RegistryStep]_vars

\* C17 witness: a registration has just failed as a duplicate on a registry
\* of two tools
C17_Witness ==
    /\ reg_out # <<>>
    /\ reg_out[1].status = "ValueError: already registered"
    /\ Cardinality(DOMAIN tools) = 2
    /\ DOMAIN declarations = DOMAIN tools

\* C18: for a response with a tool call of k >= 1 function calls,
\* send_tool_response is called at most once, with exactly k results, the
\* i-th being the response of execute_tool for the i-th call and carrying
\* its id and name; and when the processing of the response is complete the
\* call has been made.
C18_OneBatch ==
    LET calls == hd_resp.function_calls IN
        /\ Len(hd_sent) <= 1
        /\ hd_sent # <<>> =>
              /\ hd_resp.tool_call
              /\ Len(calls) >= 1
              /\ Len(hd_sent[1]) = Len(calls)
              /\ \A i \in 1..Len(calls) :
                    /\ hd_sent[1][i].kind = "response"
                    /\ hd_sent[1][i].id = calls[i].id
                    /\ hd_sent[1][i].name = calls[i].name
        /\ (hd_done = "completed" /\ hd_resp.tool_call /\ Len(calls) >= 1) =>
              Len(hd_sent) = 1

\* C18 witness: a response with two different function calls is complete;
\* the first call succeeded and the second one was an error
C18_Witness ==
    /\ hd_done = "completed"
    /\ Len(hd_resp.function_calls) = 2
    /\ hd_resp.function_calls[1].id # hd_resp.function_calls[2].id
    /\ hd_resp.function_calls[1].name # hd_resp.function_calls[2].name
    /\ Len(hd_sent) = 1
    /\ hd_sent[1][1].response.result = "success"
    /\ hd_sent[1][2].response.result = "error"

\* C19: handle_tool_calls ends only by CancelledError, never by an exception
\* of an iteration; after an exception the loop sleeps and then receives
\* again (unless it is cancelled); the registry stays as it was.
C19_LoopSurvivesFailures ==
    /\ [](hd_pc = "ended" => hd_out = "CancelledError")
    /\ [](hd_out # "fatal")
    /\ [](tools = DispatchTools /\ declarations = DispatchDeclarations)
    /\ (hd_pc = "sleep") ~> (hd_pc = "receive" \/ hd_out = "CancelledError")

\* C19 witness: after an exception was caught, a later tool call has been
\* executed and its result is being sent
C19_Witness ==
    /\ hd_caught
    /\ hd_pc = "sending"
    /\ hd_sent # <<>>

\* a step in which start_capture is called while the processor is
\* Capturing: a call is made (the calls still to come go down by one) with
\* _is_running set, and no caller enters stop_capture
StartWhileCapturing ==
    /\ is_running
    /\ audio_budget' = audio_budget - 1
    /\ \A c \in Ctrls : ctl_pc'[c] \in {"joining", "closing"} => ctl_pc'[c] = ctl_pc[c]

\* C20: start_capture called while Capturing returns at once without an
\* error: no stream is opened, no capture loop is created, and the stream,
\* the loop task, the running flag and the queue are what they were.
C20_StartIsIdempotent ==
    [][StartWhileCapturing =>
          /\ ctl_pc' = ctl_pc
          /\ \E c \in Ctrls :
                /\ ctl_out'[c] = "already running"
                /\ \A d \in Ctrls \ {c} : ctl_out'[d] = ctl_out[d]
          /\ is_running'
          /\ audio_stream' = audio_stream
          /\ capture_task' = capture_task
          /\ streams' = streams
          /\ loop_pc' = loop_pc
          /\ loop_held' = loop_held
          /\ loop_cancel' = loop_cancel
          /\ audio_queue' = audio_queue
          /\ terminated' = terminated]_vars

\* C20 witness: a start_capture has returned as a no-op while the one
\* capture loop is reading from the one open stream
C20_Witness ==
    \E c \in Ctrls :
        /\ ctl_out[c] = "already running"
        /\ is_running
        /\ capture_task # <<>>
        /\ loop_pc[capture_task[1]] = "reading"
        /\ audio_stream = capture_task
        /\ Cardinality({k \in Loops : streams[k] = "open"}) = 1
        /\ Cardinality({k \in Loops : loop_pc[k] \notin {"none", "ended"}}) = 1

\* a step in which a start_capture fails: the device lookup of a call just
\* made raises, or the open the caller was waiting for raises
StartFails(c) ==
    /\ ctl_out'[c] = "error"
    /\ ctl_pc'[c] = "idle"
    /\ \/ ctl_pc[c] = "opening"
       \/ (ctl_pc[c] = "idle" /\ audio_budget' = audio_budget - 1 /\ ctl_pc' = ctl_pc)

\* C21: a start_capture that fails in the device lookup or in the open
\* raises to its caller and changes nothing: the running flag is what it
\* was (false on an Idle processor), no stream is recorded and no capture
\* loop is created.
C21_FailedStartStaysIdle ==
    [][\A c \in Ctrls :
          StartFails(c) =>
             /\ is_running' = is_running
             /\ audio_stream' = audio_stream
             /\ capture_task' = capture_task
             /\ streams' = streams
             /\ loop_pc' = loop_pc
             /\ audio_queue' = audio_queue]_vars

\* C21 witness: a start_capture has failed and the processor is Idle: not
\* running, no stream, no loop
C21_Witness ==
    \E c \in Ctrls :
        /\ ctl_out[c] = "error"
        /\ ctl_pc[c] = "idle"
        /\ ~is_running
        /\ audio_stream = <<>>
        /\ capture_task = <<>>
        /\ \A l \in Loops : loop_pc[l] = "none" /\ streams[l] = "none"

\* C22: as long as stop_capture has not been called no capture loop ends,
\* whatever the reads raise; a read error leaves the running flag and the
\* queue alone, and after it the loop comes back to reading; a frame it then
\* reads gets into the queue as soon as the queue has room.
C22_ReadErrorIsTransient ==
    /\ [](StillCapturing => \A l \in Loops : loop_pc[l] # "ended")
    /\ [][\A l \in Loops :
             (loop_pc[l] = "reading" /\ loop_pc'[l] \notin {"reading", "put"} /\ ~loop_cancel[l])
                => /\ is_running' = is_running
                   /\ audio_queue' = audio_queue
                   /\ loop_pc'[l] \in {"sleep", "check"}]_vars
    /\ \A l \in Loops :
          (loop_pc[l] = "sleep" /\ StillCapturing)
             ~> (loop_pc[l] = "reading" \/ ~StillCapturing)
    /\ \A l \in Loops :
          (loop_pc[l] = "put" /\ StillCapturing)
             ~> \/ loop_held[l] = <<>>
                \/ Full(audio_queue, queue_maxsize)
                \/ ~StillCapturing

\* C22 witness: a read has failed after a frame was enqueued, and the
\* processor is still Capturing
C22_Witness ==
    \E l \in Loops :
        /\ loop_pc[l] = "sleep"
        /\ is_running
        /\ StillCapturing
        /\ audio_queue # <<>>

\* C23: stop_capture clears the running flag, requests the cancellation of
\* the capture task and goes on only when that task is done; then it closes
\* the stream, calls terminate whether or not the close worked, and returns
\* without an error.
C23_StopReleases ==
    [][\A c \in Ctrls :
          /\ (ctl_pc[c] = "idle" /\ ctl_pc'[c] \in {"joining", "closing"}) =>
                /\ ~is_running'
                /\ IF capture_task = <<>>
                   THEN ctl_pc'[c] = "closing"
                   ELSE /\ ctl_pc'[c] = "joining"
                        /\ loop_pc[capture_task[1]] # "ended"
                              => loop_cancel'[capture_task[1]]
          /\ (ctl_pc[c] = "joining" /\ ctl_pc'[c] # "joining") =>
                /\ ctl_pc'[c] = "closing"
                /\ loop_pc[ctl_wait[c][1]] = "ended"
          /\ (ctl_pc[c] = "closing" /\ ctl_pc'[c] # "closing") =>
                /\ ctl_pc'[c] = "idle"
                /\ terminated'
                /\ ctl_out'[c] = "stopped"]_vars

\* C23 witness: a stop_capture has returned after the close of the stream
\* failed: the stream is still open, terminate was called, the loop is done
C23_Witness ==
    \E c \in Ctrls :
        /\ ctl_out[c] = "stopped"
        /\ terminated
        /\ ~is_running
        /\ audio_stream # <<>>
        /\ streams[audio_stream[1]] = "open"
        /\ loop_pc[capture_task[1]] = "ended"

\* the processor is Idle: not running, no capture loop alive and no
\* start_capture under way
Idle ==
    /\ ~is_running
    /\ \A l \in Loops : loop_pc[l] \in {"none", "ended"}
    /\ \A c \in Ctrls : ctl_pc[c] # "opening"

C25_QueueIsFifo ==
    LET all == consumed \o audio_queue
    IN \A i, j \in 1..Len(all) : i < j => all[i].data < all[j].data

\* what C26 asks of every step that changes the queue
QueueStep ==
    audio_queue' # audio_queue =>
        \/ /\ Len(audio_queue') = Len(audio_queue) + 1
           /\ SubSeq(audio_queue', 1, Len(audio_queue)) = audio_queue
        \/ /\ audio_queue # <<>>
           /\ audio_queue' = Tail(audio_queue)
           /\ consumed' = Append(consumed, Head(audio_queue))

\* C26: once start_capture has created the capture loop, on a device whose
\* reads return data, a frame gets into the queue unless stop_capture is
\* called first; every frame in the queue has the MIME tag "audio/pcm"; and
\* the queue only changes by a put at its tail or a get of the consumer at
\* its head, so that stop_capture removes nothing from it.
C26_FramesArrive ==
    /\ [](\A i \in 1..Len(audio_queue) : audio_queue[i].mime_type = "audio/pcm")
    /\ [][QueueStep]_vars
    /\ \A l \in Loops :
          (loop_pc[l] = "created" /\ StillCapturing)
             ~> (audio_queue # <<>> \/ consumed # <<>> \/ ~StillCapturing)

\* C26 witness: stop_capture has returned and the frames enqueued before it
\* are still in the queue
C26_Witness ==
    \E c \in Ctrls :
        /\ ctl_out[c] = "stopped"
        /\ terminated
        /\ audio_queue # <<>>
        /\ \A i \in 1..Len(audio_queue) : audio_queue[i].mime_type = "audio/pcm"

\* the last command has returned an envelope with the given action
Returned(action) ==
    /\ tl_pc = "idle"
    /\ "action" \in DOMAIN tl_out
    /\ tl_out.action = action

\* the running command returns to its caller in this step
ToolReturns(name) ==
    /\ tl_call.name = name
    /\ tl_pc # "idle"
    /\ tl_pc' = "idle"
    /\ tl_out' # Propagated("CancelledError")

\* navigate(direction, index) cannot be carried out on the deck as it stands
NavigationFails ==
    \/ tl_call.direction \notin {"next", "prev", "jump"}
    \/ tl_call.direction = "jump" /\ tl_call.index = <<>>
    \/ /\ tl_call.direction = "jump"
       /\ tl_call.index # <<>>
       /\ total_slides > 0
       /\ (tl_call.index[1] < 0 \/ tl_call.index[1] >= total_slides)

\* C27: every SlideTools command that returns gives an envelope with an
\* action and a boolean success; a navigate_slide that the StateManager
\* refuses returns success = false with the message of the error, and a
\* command that returns success = false has left current_slide as it was.
C27_FailuresBecomeEnvelopes ==
    [][/\ \A name \in {"navigate_slide", "inject_image", "add_content", "generate_summary",
                       "get_presentation_context"} :
          ToolReturns(name) =>
             /\ {"action", "success"} \subseteq DOMAIN tl_out'
             /\ tl_out'.success \in BOOLEAN
             /\ (name = "navigate_slide" /\ tl_pc = "nav_navigate") =>
                   /\ NavigationFails
                   /\ ~tl_out'.success
             /\ ~tl_out'.success =>
                   /\ "error" \in DOMAIN tl_out'
                   /\ tl_out'.error # <<>>
                   /\ current_slide' = current_slide
                   /\ injections' = injections
       /\ (tl_pc = "nav_navigate" /\ tl_pc' # tl_pc /\ NavigationFails
              /\ tl_out' # Propagated("CancelledError")) =>
             /\ tl_pc' = "idle"
             /\ ~tl_out'.success
             /\ current_slide' = current_slide
             /\ (tl_call.direction = "jump" /\ tl_call.index = <<>>) =>
                   tl_out'.error = <<"Index required for 'jump' navigation">>]_vars

\* C27 witness: navigate_slide("jump", MaxTotal) on a deck of MaxTotal
\* slides has returned a failure envelope after another task moved the deck
C27_Witness ==
    /\ Returned("navigate")
    /\ tl_call.name = "navigate_slide"
    /\ tl_call.direction = "jump"
    /\ tl_call.index = <<MaxTotal>>
    /\ total_slides = MaxTotal
    /\ tl_out.success = FALSE
    /\ current_slide > 0

\* C28: the returning step of inject_image appends one record of type
\* "image" with a stub payload and reports stub = true, the returning step
\* of add_content appends one record of type "text" holding the text given;
\* the record has the slide index and the placeholder of the envelope; no
\* other step of these commands touches the injections, and none touches
\* current_slide or the transcript.
C28_OneInjectionPerCall ==
    [][(tl_call.name \in {"inject_image", "add_content"} /\ tl_pc # "idle" /\ tl_pc' # tl_pc) =>
          /\ current_slide' = current_slide
          /\ transcript' = transcript
          /\ IF ToolReturns(tl_call.name)
             THEN /\ Len(injections') = Len(injections) + 1
                  /\ SubSeq(injections', 1, Len(injections)) = injections
                  /\ LET rec == injections'[Len(injections')] IN
                        /\ tl_out'.success
                        /\ rec.slide_index = tl_out'.slide_index
                        /\ rec.placeholder = tl_out'.placeholder
                        /\ rec.placeholder = tl_call.placeholder
                        /\ IF tl_call.name = "inject_image"
                           THEN /\ rec.content_type = "image"
                                /\ rec.content.status = "stub"
                                /\ rec.content.prompt = tl_call.text
                                /\ tl_out'.stub
                           ELSE /\ rec.content_type = "text"
                                /\ rec.content = tl_call.text
             ELSE injections' = injections]_vars

\* C28 witness: inject_image and then add_content have returned, and the
\* text record carries a slide index the deck has left since
C28_Witness ==
    /\ Returned("inject_content")
    /\ tl_call.name = "add_content"
    /\ Len(injections) = 2
    /\ injections[1].content_type = "image"
    /\ injections[2].content_type = "text"
    /\ injections[2].slide_index = tl_out.slide_index
    /\ injections[2].slide_index # current_slide

\* C29: generate_summary on an empty transcript returns success = false
\* with the "No transcript" error and records nothing; on a transcript with
\* an entry of more than 10 characters it returns success = true, and the
\* call has then recorded exactly one injection, of type "summary".
C29_SummaryOrNoTranscript ==
    [][(tl_call.name = "generate_summary" /\ tl_pc # "idle" /\ tl_pc' # tl_pc) =>
          IF ToolReturns("generate_summary")
          THEN /\ transcript = <<>> =>
                     /\ ~tl_out'.success
                     /\ tl_out'.error = <<"No transcript available to summarize">>
                     /\ injections' = injections
               /\ (\E i \in 1..Len(transcript) : Len(transcript[i].text) > MinLength) =>
                     /\ tl_out'.success
                     /\ Len(injections') = Len(injections) + 1
                     /\ SubSeq(injections', 1, Len(injections)) = injections
                     /\ injections'[Len(injections')].content_type = "summary"
          ELSE injections' = injections]_vars

\* C29 witness: generate_summary has returned success on a transcript whose
\* only entries longer than 10 characters lie outside the first five
C29_Witness ==
    /\ Returned("inject_summary")
    /\ tl_call.name = "generate_summary"
    /\ tl_out.success
    /\ Len(injections) = 1
    /\ injections[1].content_type = "summary"
    /\ \E i \in 1..Len(transcript) : Len(transcript[i].text) > MinLength
    /\ \A i \in 1..KeyPoints : Len(transcript[i].text) <= MinLength

\* the entries generate_summary is to read: the last SummaryWindow ones
Window == LastN(transcript, SummaryWindow)

\* the positions in the window of the entries longer than MinLength
QualifyingIn(n) == {i \in 1..Min(n, Len(Window)) : Len(Window[i].text) > MinLength}

\* C30 as stated: generate_summary makes min(5, q) bullets, q the number of
\* entries longer than 10 characters among the last 20.
C30_FirstFiveQualifying ==
    Returned("inject_summary") =>
        Len(tl_local.summary_bullets) = Min(KeyPoints, Cardinality(QualifyingIn(SummaryWindow)))

\* C30 amended: generate_summary reads the last 20 entries and makes one
\* bullet for each of the first 5 of them that is longer than 10 characters,
\* in order; a bullet is "- ", the first 100 characters of the text and
\* "..."; the summary is the bullets joined by newlines.
C30_QualifyingOfFirstFive ==
    Returned("inject_summary") =>
        LET bullets == tl_local.summary_bullets
            from == QualifyingIn(KeyPoints)
            \* the position in the window of the entry behind bullet k
            At(k) == CHOOSE i \in from : Cardinality({j \in from : j <= i}) = k
        IN /\ tl_local.recent = Window
           /\ Len(bullets) = Cardinality(from)
           /\ \A k \in 1..Len(bullets) :
                 LET text == Window[At(k)].text
                     kept == Min(Len(text), BulletWidth)
                 IN /\ Len(bullets[k]) = kept + 5
                    /\ SubSeq(bullets[k], 1, 2) = <<"-", " ">>
                    /\ SubSeq(bullets[k], 3, kept + 2) = SubSeq(text, 1, kept)
                    /\ SubSeq(bullets[k], kept + 3, kept + 5) = <<".", ".", ".">>
           /\ tl_out.summary = Join(bullets)
           /\ bullets # <<>> =>
                 Len(tl_out.summary) = SumOver(1..Len(bullets), [k \in 1..Len(bullets) |-> Len(bullets[k])])
                                          + Len(bullets) - 1

\* C30 witness: a summary of a session of more than 20 sentences with texts
\* over 100 characters, whose bullets are fewer than the entries that count
C30_Witness ==
    /\ Returned("inject_summary")
    /\ Len(transcript) > SummaryWindow
    /\ \E i \in 1..KeyPoints : Len(Window[i].text) > BulletWidth
    /\ tl_local.summary_bullets # <<>>
    /\ Len(tl_local.summary_bullets) < Cardinality(QualifyingIn(SummaryWindow))

\* C33: in every state reachable through the public operations of the
\* StateManager, current_slide >= 0 and total_slides >= 0, also in
\* unbounded mode and after set_total_slides, set_current_slide and
\* navigate("jump") with arbitrary integer arguments.
C33_NeverNegative ==
    /\ current_slide >= 0
    /\ total_slides >= 0

\* the task that takes the step
Steps(t) == pc'[t] # pc[t]

\* log' is log with exactly one record added at its end
OneMore(log, after) ==
    /\ Len(after) = Len(log) + 1
    /\ SubSeq(after, 1, Len(log)) = log

\* C34: the transcript and the injection log are append-only:
\* add_transcript_entry and track_injection add exactly one record at the
\* end of their own log and leave the earlier records and their order as
\* they are; records are removed only by clear_transcript, clear_injections
\* and reset, each of which empties a whole log; no other operation changes
\* either log.
C34_AppendOnly ==
    [][\A t \in Tasks : Steps(t) =>
          CASE pc[t] = "ate_append" ->
                 OneMore(transcript, transcript') /\ injections' = injections
            [] pc[t] = "ti_append" ->
                 OneMore(injections, injections') /\ transcript' = transcript
            [] pc[t] \in {"ct_clear", "reset_transcript"} ->
                 transcript' = <<>> /\ injections' = injections
            [] pc[t] \in {"ci_clear", "reset_injections"} ->
                 injections' = <<>> /\ transcript' = transcript
            [] OTHER ->
                 transcript' = transcript /\ injections' = injections]_vars

\* C34 witness: a second record has just been added after an earlier one
\* of the same log
C34_Witness ==
    \E t \in Tasks :
        /\ pc[t] = "release"
        /\ ret[t].status = "ok"
        /\ op[t].name = "track_injection"
        /\ Len(injections) >= 2

\* the keys that set_metadata had set when task t got the lock
KeysSetBefore(t) ==
    LET before == entry_state[t][1].session_metadata
    IN {k \in DOMAIN before : before[k] = "value"}

\* task t has run reset to its end
ResetDone(t) == pc[t] = "release" /\ op[t].name = "reset"

\* C32: reset from any reachable state sets current_slide to 0, empties the
\* transcript and the injection log, and replaces the metadata by a fresh
\* session marker in which every key set earlier through set_metadata is
\* absent; it leaves total_slides unchanged.
C32_ResetForgetsEveryKey ==
    \A t \in Tasks : ResetDone(t) =>
        /\ current_slide = 0
        /\ transcript = <<>>
        /\ injections = <<>>
        /\ total_slides = entry_state[t][1].total_slides
        /\ \A k \in KeysSetBefore(t) : k \notin DOMAIN session_metadata

\* C32 as amended: reset sets current_slide to 0, empties both logs and
\* replaces the metadata by a fresh session marker, which holds started_at
\* and session_id with their initial values: a key set earlier is absent
\* unless it is one of these two, and then its value is the initial one;
\* total_slides is left unchanged.
C32_ResetRestoresMarker ==
    \A t \in Tasks : ResetDone(t) =>
        /\ current_slide = 0
        /\ transcript = <<>>
        /\ injections = <<>>
        /\ total_slides = entry_state[t][1].total_slides
        /\ session_metadata = FreshMetadata
        /\ \A k \in KeysSetBefore(t) :
              \/ k \notin DOMAIN session_metadata
              \/ k \in {"started_at", "session_id"} /\ session_metadata[k] # "value"

\* C32 witness: a reset of a session that had set the presenter key
C32_Witness ==
    \E t \in Tasks :
        /\ ResetDone(t)
        /\ "presenter" \in KeysSetBefore(t)
        /\ "presenter" \notin DOMAIN session_metadata

\* the loop tasks that have been created and have not ended
LiveLoops == {l \in Loops : loop_pc[l] \notin {"none", "ended"}}

\* the streams that are open
OpenStreams == {l \in Loops : streams[l] = "open"}

\* C36: at most one capture loop task and at most one open audio stream
\* exist at any time, also when two start_capture calls are in flight at
\* once; no stream or loop task is started whose handle is then overwritten
\* and can no longer be stopped.
C36_OneLoopOneStream ==
    /\ Cardinality(LiveLoops) <= 1
    /\ Cardinality(OpenStreams) <= 1
    /\ \A l \in LiveLoops : capture_task = <<l>>
    /\ \A l \in OpenStreams : audio_stream = <<l>>

C40_NoEmptySummary ==
    /\ \A i \in 1..Len(injections) :
          injections[i].content_type = "summary" => injections[i].content # <<>>
    /\ Returned("inject_summary") => QualifyingIn(KeyPoints) # {}

\* C37: every command invocation that handle_tool_calls executes has its
\* result sent back to the session, also when send_tool_response fails or
\* an error occurs between two invocations of the same batch: the
\* processing of a response never fails with results of executed
\* invocations in function_responses that were not delivered.
C37_ExecutedIsDelivered ==
    hd_done = "failed" => hd_batch = <<>>

\* C39: when stop_capture closes the audio stream, no read on that stream
\* started by the capture loop is still in progress, and after stop_capture
\* has returned no further frame is enqueued.
C39_NoReadAtClose ==
    [][/\ \A c \in Ctrls :
            (ctl_pc[c] = "closing" /\ ctl_pc'[c] = "idle" /\ audio_stream # <<>>) =>
                \A l \in Loops : loop_read[l] # audio_stream
       /\ (/\ \A c \in Ctrls : ctl_pc[c] = "idle"
           /\ \E c \in Ctrls : ctl_out[c] = "stopped"
           /\ ~is_running) =>
             Len(audio_queue') <= Len(audio_queue)]_vars

\* C31: every value returned by a StateManager read operation
\* (get_all_injections, get_injections_for_slide, get_recent_transcript,
\* get_context with its metadata) is a snapshot copy: a later mutation
\* (track_injection, add_transcript_entry, set_metadata, clear_transcript,
\* clear_injections) does not change a value returned earlier.
C31_ReadsAreSnapshots ==
    [][held # NoView => Observed(held)' = Observed(held)]_vars

\* the positions in a log of the records whose stored slide index is index
OnSlide(log, index) == {k \in 1..Len(log) : log[k].slide_index = index}

\* value holds exactly the records of log stored with slide index index, in
\* the order of the log
IsViewOfSlide(value, log, index) ==
    LET from == OnSlide(log, index)
        At(j) == CHOOSE k \in from : Cardinality({m \in from : m <= k}) = j
    IN /\ Len(value) = Cardinality(from)
       /\ \A j \in 1..Len(value) : value[j] = log[At(j)]

\* the records a log had before a step are in it after the step, with the
\* slide index they had, unless the step has emptied the log
IndicesStay(log, after) ==
    after = <<>> \/ (Len(after) >= Len(log) /\ SubSeq(after, 1, Len(log)) = log)

\* C35: a record keeps the slide index fixed at insertion:
\* add_transcript_entry stores the current_slide of the moment of the call,
\* track_injection stores the given slide_index, or current_slide when none
\* is given; later navigation does not change stored indices; and
\* get_transcript_for_slide(i) / get_injections_for_slide(i) return exactly
\* the records whose stored slide index is i, in insertion order.
C35_SlideIndexIsFixed ==
    [][\A t \in Tasks : Steps(t) =>
          /\ IndicesStay(transcript, transcript')
          /\ IndicesStay(injections, injections')
          /\ pc[t] = "ate_append" =>
                transcript'[Len(transcript')].slide_index = current_slide
          /\ pc[t] = "ti_append" =>
                injections'[Len(injections')].slide_index =
                    IF op[t].index = <<>> THEN current_slide ELSE op[t].index[1]
          /\ pc[t] = "gts_filter" =>
                IsViewOfSlide(ret'[t].value[1], transcript, op[t].arg)
          /\ pc[t] = "gis_filter" =>
                IsViewOfSlide(ret'[t].value[1], injections, op[t].arg)]_vars

\* C35 witness: after a navigation, get_transcript_for_slide has returned
\* some but not all of the records of a transcript, which holds a record of
\* another slide between two of those returned
C35_Witness ==
    \E t \in Tasks :
        /\ pc[t] = "release"
        /\ op[t].name = "get_transcript_for_slide"
        /\ ret[t].status = "ok"
        /\ current_slide # 0
        /\ Len(ret[t].value[1]) >= 2
        /\ \E i, j, k \in 1..Len(transcript) :
              /\ i < j /\ j < k
              /\ transcript[i].slide_index = op[t].arg
              /\ transcript[j].slide_index # op[t].arg
              /\ transcript[k].slide_index = op[t].arg

====
